---- MODULE Spec2Model ----
(***************************************************************************)
(* A state-machine model of the del-game simulation: the World aggregate   *)
(* (world.py), the action library (actions.py), the agents' belief update  *)
(* (agent.py), memory items (memory.py), rooms (room.py) and the NPC       *)
(* policies (npc_policy.py).                                               *)
(*                                                                         *)
(* Agents are numbered 1..n in roster order (get_all_agents: the player,   *)
(* when there is one, then the NPCs).  Times are whole seconds.  Suspicion *)
(* scores are counted in tenths (0.1 = 1).  A possible world is a function *)
(* from agent ids to roles.                                                *)
(***************************************************************************)
EXTENDS Integers, Sequences, FiniteSets, TLC

\* ------------------------------------------------------------------ bounds
\* at most this many Event objects are constructed in one run
MaxEvents == 3
\* the drivers make at most this many direct calls of Actions.apply in one run
MaxCalls == 2
\* the game clock (current_time) is not advanced past this
MaxTime == 4
\* a meeting timer is not advanced past this
MaxMeetingTimer == 6
\* the largest roster the construction specification draws
MaxAgents == 5
\* the direct calls interleaved with the ticks of a meeting
MaxInterleaved == 2

\* the game clock of a run that waits for the automatic meeting
MaxPlayingTime == 12

\* ------------------------------------------------------- program constants
meeting_next_statement_time == 2
meeting_interval == 10
result_delay == 1
kill_check_interval == 2
say_sus_delta == 1
sabo_sus_delta == 2
high_sus == 5
report_worlds_threshold == 2

\* ------------------------------------------------------------ vocabulary
NoAgent == 0
NoLoc == "None"
NoResult == "None"
BadWin == "Bad agent(s) win"
GoodWin == "Good agents win"
NoStatement == [predicate |-> "None", subject |-> NoAgent, value |-> "None", speaker |-> NoAgent]
NoVotes == << >>
meeting_room == "E"

Roles == {"good", "bad"}
Predicates == {"role", "location", "did"}

\* ------------------------------------------------------------ sequences
RECURSIVE SeqToSet(_)
SeqToSet(s) == IF s = << >> THEN {} ELSE {Head(s)} \cup SeqToSet(Tail(s))

RECURSIVE SetToSeq(_)
\* the ids of a set in increasing (roster) order
SetToSeq(S) ==
    IF S = {} THEN << >>
    ELSE LET m == CHOOSE x \in S : \A y \in S : x <= y
         IN  <<m>> \o SetToSeq(S \ {m})

RECURSIVE Sum(_, _)
Sum(f, S) == IF S = {} THEN 0
             ELSE LET x == CHOOSE y \in S : TRUE IN f[x] + Sum(f, S \ {x})

RECURSIVE combinations(_, _)
\* itertools.combinations: the k-element subsequences of s, in lexicographic order
combinations(s, k) ==
    IF k = 0 THEN << << >> >>
    ELSE IF Len(s) < k THEN << >>
    ELSE LET with == combinations(Tail(s), k - 1)
             without == combinations(Tail(s), k)
         IN  [i \in 1..Len(with) |-> <<Head(s)>> \o with[i]] \o without

\* ------------------------------------------------------- belief initialization
\* a variant that does not pin the agent's own role: every k-subset of all n agents
initial_worlds_unaware(role, aid) ==
    LET n == Len(role)
        num_bad == Cardinality({a \in 1..n : role[a] = "bad"})
        combos == combinations(SetToSeq(1..n), num_bad)
    IN  [i \in 1..Len(combos) |->
            [a \in 1..n |-> IF a \in SeqToSet(combos[i]) THEN "bad" ELSE "good"]]

\* a variant that gives every agent, good or bad, the true assignment only
initial_worlds_truth_only(role, aid) == << [a \in 1..Len(role) |-> role[a]] >>

\* World._initialize_all_worlds, for the agent aid of a roster with roles role
initial_worlds_of(role, aid) ==
    LET n == Len(role)
        bad_agent_ids == {a \in 1..n : role[a] = "bad"}
        num_bad == Cardinality(bad_agent_ids)
        other_agent_ids == SetToSeq((1..n) \ {aid})
        combos == combinations(other_agent_ids, num_bad)
    IN  IF role[aid] = "good"
        THEN IF num_bad > 0 /\ Len(other_agent_ids) >= num_bad
             THEN [i \in 1..Len(combos) |->
                     [a \in 1..n |-> IF a = aid THEN "good"
                                     ELSE IF a \in SeqToSet(combos[i]) THEN "bad"
                                     ELSE "good"]]
             ELSE IF num_bad = 0
             THEN << [a \in 1..n |-> "good"] >>
             ELSE << >>
        ELSE << [a \in 1..n |-> IF a \in bad_agent_ids THEN "bad" ELSE "good"] >>

initialize_all_worlds(role) == [aid \in 1..Len(role) |-> initial_worlds_of(role, aid)]

\* ------------------------------------------------------------ memory items
\* MemoryItem.__init__ with _determine_initial_certainty
MemoryItem(event, source_type, source_id) ==
    [event |-> event, source_type |-> source_type, source_id |-> source_id,
     certainty |-> IF source_type = "observation" THEN "FACT" ELSE "UNCERTAIN"]

\* Event.__init__; vote_result events get voted_out_id, game_ended and votes attached
Event(action, actor, location, witnesses, visibility, statement, timestamp) ==
    [action |-> action, actor |-> actor, location |-> location, witnesses |-> witnesses,
     visibility |-> visibility, statement |-> statement, timestamp |-> timestamp,
     voted_out_id |-> NoAgent, game_ended |-> FALSE, votes |-> NoVotes]

\* ------------------------------------------------------------ roster queries
AgentIds(W) == 1..Len(W.role)
\* Player instances have no sus attribute; NPC instances do
IsNPC(W, a) == ~(W.has_player /\ a = 1)
\* World.npcs in roster order
npcs(W) == SetToSeq({a \in AgentIds(W) : IsNPC(W, a)})
\* World.get_alive_agents, in roster order
get_alive_agents(W) == SetToSeq({a \in AgentIds(W) : W.state[a] = "alive"})
\* World._get_agent_by_id succeeds
agent_exists(W, a) == a \in AgentIds(W)
RoomNames(W) == SeqToSet(W.rooms)
\* World.get_agents_at_location: the room's list of living agents when the room exists
get_agents_at_location(W, location) ==
    IF location \in RoomNames(W) THEN W.room_agents[location]
    ELSE {a \in AgentIds(W) : W.state[a] = "alive" /\ W.location[a] = location}
\* World.get_dead_agents_at_location
get_dead_agents_at_location(W, location) ==
    IF location \in RoomNames(W) THEN W.room_dead[location]
    ELSE {a \in AgentIds(W) : W.state[a] = "dead" /\ W.location[a] = location}
\* World.are_connected through Room.is_connected_to
are_connected(W, room1, room2) ==
    IF room1 \in RoomNames(W) THEN room2 \in W.connections[room1] ELSE FALSE

\* ------------------------------------------------------------ belief update
\* a variant in which the NPCs share one suspicion map
update_sus_shared(W, a, target, delta) ==
    IF IsNPC(W, a) /\ target \in DOMAIN W.sus[a]
    THEN [W EXCEPT !.sus = [x \in AgentIds(W) |->
                               IF IsNPC(W, x) THEN [@[x] EXCEPT ![target] = @ + delta]
                               ELSE @[x]]]
    ELSE W

\* NPC.update_sus (Agent.update_sus does nothing)
update_sus(W, a, target, delta) ==
    IF IsNPC(W, a) /\ target \in DOMAIN W.sus[a]
    THEN LET v == W.sus[a][target] + delta
         IN  [W EXCEPT !.sus[a][target] = IF v < 0 THEN 0 ELSE v]
    ELSE W

RECURSIVE filter_voters(_, _, _, _)
\* the progressive filter of the self-voted-out rule over the tally's entries
filter_voters(W, votes, voter_ids, worlds_to_keep) ==
    IF voter_ids = << >> THEN worlds_to_keep
    ELSE LET voter_id == Head(voter_ids)
         IN  IF votes[voter_id] > 0 /\ agent_exists(W, voter_id) /\ W.state[voter_id] = "alive"
             THEN LET filtered_worlds ==
                          SelectSeq(worlds_to_keep, LAMBDA w : w[voter_id] # "good")
                  IN  IF filtered_worlds = << >> THEN << >>
                      ELSE filter_voters(W, votes, Tail(voter_ids), filtered_worlds)
             ELSE filter_voters(W, votes, Tail(voter_ids), worlds_to_keep)

\* a variant of the kill branch that rewrites the worlds instead of eliminating
kill_worlds_rewrite(worlds, actor) ==
    [i \in 1..Len(worlds) |-> [worlds[i] EXCEPT ![actor] = "bad"]]

\* a variant of the kill branch that eliminates nothing
kill_worlds_keep_all(worlds, actor) == worlds

\* the kill branch of Agent._update_belief_hard_knowledge
kill_worlds(worlds, actor) == SelectSeq(worlds, LAMBDA w : w[actor] = "bad")

\* a variant of the hard branch whose vote_result rule always eliminates the worlds in
\* which the agent voted out is bad, whether or not the game ended or any world is left
update_belief_vote_unguarded(W, a, memory_item) ==
    IF memory_item.event.action = "vote_result"
    THEN [W EXCEPT !.worlds[a] =
              SelectSeq(@, LAMBDA w : w[memory_item.event.voted_out_id] = "good")]
    ELSE W

\* a variant of the hard branch that treats an observed sabo like an observed kill
update_belief_sabo_as_kill(W, a, memory_item) ==
    IF memory_item.event.action \in {"kill", "sabo"}
    THEN [W EXCEPT !.worlds[a] = kill_worlds(W.worlds[a], memory_item.event.actor)]
    ELSE W

\* a variant that eliminates on a kill only for the first agent to record the event
update_belief_first_recipient(W, a, memory_item) ==
    IF memory_item.event.action = "kill"
       /\ \A x \in AgentIds(W) \ {a} : \A i \in DOMAIN W.memory[x] :
              W.memory[x][i].event # memory_item.event
    THEN [W EXCEPT !.worlds[a] = kill_worlds(W.worlds[a], memory_item.event.actor)]
    ELSE W

\* Agent._update_belief_hard_knowledge
update_belief_hard_knowledge(W, a, memory_item) ==
    LET event == memory_item.event
        worlds == W.worlds[a]
    IN  IF event.action = "kill"
        THEN [W EXCEPT !.worlds[a] = kill_worlds(worlds, event.actor)]
        ELSE IF event.action = "vote_result"
        THEN IF event.voted_out_id = NoAgent THEN W
             ELSE IF event.voted_out_id = a /\ W.role[a] = "good"
             THEN LET worlds_to_keep ==
                          filter_voters(W, event.votes, SetToSeq(DOMAIN event.votes), worlds)
                  IN  IF worlds_to_keep # << >> THEN [W EXCEPT !.worlds[a] = worlds_to_keep]
                      ELSE W
             ELSE IF ~event.game_ended
             THEN LET worlds_to_keep ==
                          SelectSeq(worlds, LAMBDA w : w[event.voted_out_id] = "good")
                  IN  IF worlds_to_keep # << >> THEN [W EXCEPT !.worlds[a] = worlds_to_keep]
                      ELSE W
             ELSE W
        ELSE W

\* a variant of the soft branch that lets an agent raise its suspicion of itself
update_belief_soft_belief_self(W, a, memory_item) ==
    LET event == memory_item.event
        statement == event.statement
    IN  IF event.action = "say" /\ statement # NoStatement
        THEN IF statement.predicate = "role" /\ statement.value = "bad"
             THEN update_sus(W, a, statement.subject, say_sus_delta)
             ELSE W
        ELSE IF event.action = "sabo"
        THEN update_sus(W, a, event.actor, sabo_sus_delta)
        ELSE W

\* Agent._update_belief_soft_belief
update_belief_soft_belief(W, a, memory_item) ==
    LET event == memory_item.event
        statement == event.statement
    IN  IF event.action = "say" /\ statement # NoStatement
        THEN IF ~IsNPC(W, a) THEN W
             ELSE IF statement.predicate = "role" /\ statement.value = "bad"
                     /\ statement.subject \in DOMAIN W.sus[a] /\ statement.subject # a
             THEN update_sus(W, a, statement.subject, say_sus_delta)
             ELSE W
        ELSE IF event.action = "sabo"
        THEN IF IsNPC(W, a) /\ event.actor \in DOMAIN W.sus[a] /\ event.actor # a
             THEN update_sus(W, a, event.actor, sabo_sus_delta)
             ELSE W
        ELSE W

\* Agent.update_belief
update_belief(W, a, memory_item) ==
    IF W.worlds[a] = << >> THEN W
    ELSE IF memory_item.certainty = "FACT" THEN update_belief_hard_knowledge(W, a, memory_item)
    ELSE IF memory_item.certainty = "UNCERTAIN" THEN update_belief_soft_belief(W, a, memory_item)
    ELSE W

\* Agent.update_knowledge
update_knowledge(W, a, memory_item) ==
    [W EXCEPT !.memory[a] = Append(@, memory_item)]

\* one recipient of a dispatch: update_knowledge, then update_belief
deliver(W, a, memory_item) == update_belief(update_knowledge(W, a, memory_item), a, memory_item)

RECURSIVE deliver_observation_to_living(_, _, _)
\* a variant that hands the event only to the recipients that are alive
deliver_observation_to_living(W, recipients, event) ==
    IF recipients = << >> THEN W
    ELSE deliver_observation_to_living(
             IF agent_exists(W, Head(recipients)) /\ W.state[Head(recipients)] = "alive"
             THEN deliver(W, Head(recipients), MemoryItem(event, "observation", NoAgent))
             ELSE W,
             Tail(recipients), event)

RECURSIVE deliver_observation(_, _, _)
\* each agent of recipients, in order, receives the event as an observation
deliver_observation(W, recipients, event) ==
    IF recipients = << >> THEN W
    ELSE deliver_observation(
             IF agent_exists(W, Head(recipients))
             THEN deliver(W, Head(recipients), MemoryItem(event, "observation", NoAgent))
             ELSE W,
             Tail(recipients), event)

\* a variant of the public branch that hands every recipient an observation
deliver_public_as_observation(W, recipients, event) ==
    deliver_observation(W, recipients, event)

RECURSIVE deliver_public(_, _, _)
\* the public branch of World.create_event: observation for the actor, hearsay for the rest
deliver_public(W, recipients, event) ==
    IF recipients = << >> THEN W
    ELSE LET a == Head(recipients)
             memory_item == IF a = event.actor THEN MemoryItem(event, "observation", NoAgent)
                            ELSE MemoryItem(event, "hearsay", event.actor)
         IN  deliver_public(deliver(W, a, memory_item), Tail(recipients), event)

\* World.create_event; the Event it returns is the last entry of event_history
create_event(W, action, actor, location, witnesses, visibility, statement) ==
    LET event == Event(action, actor, location, witnesses, visibility, statement,
                       W.events_created + 1)
        W1 == [W EXCEPT !.event_history = Append(@, event),
                        !.events_created = @ + 1]
    IN  IF visibility = "private"
        THEN deliver_observation(W1, <<actor>>, event)
        ELSE IF visibility = "witnessed"
        THEN deliver_observation(W1, <<actor>> \o SetToSeq(witnesses), event)
        ELSE IF visibility = "public"
        THEN deliver_public(W1, get_alive_agents(W1), event)
        ELSE W1

\* ------------------------------------------------------------ rooms
\* Room.remove_agent on the room named r, when the world has that room
remove_agent(W, r, a) ==
    IF r \in RoomNames(W)
    THEN [W EXCEPT !.room_agents[r] = @ \ {a}, !.room_dead[r] = @ \ {a}]
    ELSE W

\* Room.add_agent on the room named r, when the world has that room
add_agent(W, r, a) ==
    IF r \in RoomNames(W)
    THEN IF W.state[a] = "dead"
         THEN [W EXCEPT !.room_dead[r] = @ \cup {a}]
         ELSE [W EXCEPT !.room_agents[r] = @ \cup {a}]
    ELSE W

\* ------------------------------------------------------------ meetings: start
RECURSIVE teleport(_, _, _)
\* the relocation loop of World.start_meeting
teleport(W, agents, meeting_location) ==
    IF agents = << >> THEN W
    ELSE LET a == Head(agents)
             W1 == remove_agent(W, W.location[a], a)
             W2 == [W1 EXCEPT !.location[a] = meeting_location]
         IN  teleport(add_agent(W2, meeting_location, a), Tail(agents), meeting_location)

\* a variant of start_meeting that starts over when a meeting is already running
start_meeting_restart(W, reporter_id) ==
    [W EXCEPT !.phase = "meeting",
              !.meeting_reporter_id = reporter_id,
              !.meeting_timer = 0,
              !.meeting_statement_timer = 0,
              !.meeting_step = 0,
              !.original_locations =
                  [a \in AgentIds(W) |->
                      IF W.state[a] = "alive" THEN W.location[a] ELSE NoLoc],
              !.meeting_queue = get_alive_agents(W),
              !.last_meeting_time = W.current_time]

\* World.start_meeting
start_meeting(W, reporter_id) ==
    IF W.phase = "meeting" THEN W
    ELSE LET alive_agents == get_alive_agents(W)
             W1 == [W EXCEPT !.phase = "meeting",
                             !.meeting_reporter_id = reporter_id,
                             !.meeting_timer = 0,
                             !.meeting_statement_timer = 0,
                             !.meeting_step = 0,
                             !.original_locations =
                                 [a \in AgentIds(W) |->
                                     IF W.state[a] = "alive" THEN W.location[a] ELSE NoLoc]]
             W2 == IF meeting_room \in RoomNames(W)
                   THEN teleport(W1, alive_agents, meeting_room)
                   ELSE W1
         IN  [W2 EXCEPT !.meeting_queue = alive_agents,
                        !.last_meeting_time = W.current_time]

\* ------------------------------------------------------------ actions
\* the visibility Actions.enter, Actions.sabo and Actions.kill choose
witnessed_or_private(witnesses) == IF witnesses # {} THEN "witnessed" ELSE "private"

\* a variant that lets an agent enter any room the world has
enter_ok_any_room(W, a, target_room) == target_room \in RoomNames(W)

\* Actions.enter returns an Event
enter_ok(W, a, target_room) ==
    /\ target_room \in RoomNames(W)
    /\ ~(W.location[a] # NoLoc /\ ~are_connected(W, W.location[a], target_room))

\* Actions.enter
enter(W, a, target_room) ==
    IF ~enter_ok(W, a, target_room) THEN W
    ELSE LET W1 == remove_agent(W, W.location[a], a)
             W2 == [W1 EXCEPT !.location[a] = target_room]
             W3 == add_agent(W2, target_room, a)
             witnesses == get_agents_at_location(W3, target_room) \ {a}
             W4 == create_event(W3, "enter", a, target_room, witnesses,
                                witnessed_or_private(witnesses), NoStatement)
         IN  [W4 EXCEPT !.behavior[a] = "idle"]

\* a variant that announces a sabotage to every living agent
sabo_announced(W, a) ==
    LET witnesses == {x \in AgentIds(W) : W.state[x] = "alive"} \ {a}
        W1 == create_event(W, "sabo", a, W.location[a], witnesses, "public", NoStatement)
    IN  [W1 EXCEPT !.behavior[a] = "idle"]

\* Actions.sabo
sabo(W, a) ==
    LET witnesses == get_agents_at_location(W, W.location[a]) \ {a}
        W1 == create_event(W, "sabo", a, W.location[a], witnesses,
                           witnessed_or_private(witnesses), NoStatement)
    IN  [W1 EXCEPT !.behavior[a] = "idle"]

RECURSIVE remove_corpses(_, _)
\* the corpse removal loop of Actions.report
remove_corpses(W, dead_agents) ==
    IF dead_agents = << >> THEN W
    ELSE LET d == Head(dead_agents)
             W1 == remove_agent(W, W.location[d], d)
         IN  remove_corpses([W1 EXCEPT !.location[d] = NoLoc], Tail(dead_agents))

\* Actions.report
report(W, a) ==
    LET dead_agents == get_dead_agents_at_location(W, W.location[a])
        witnesses == {x \in AgentIds(W) : W.state[x] = "alive"} \ {a}
        W1 == create_event(W, "report", a, W.location[a], witnesses, "public", NoStatement)
        W2 == remove_corpses(W1, SetToSeq(dead_agents))
    IN  start_meeting(W2, a)

\* a variant that lets a kill go through for any agent of the roster, dead or alive
kill_ok_any_state(W, target_id) == agent_exists(W, target_id)

\* Actions.kill returns an Event
kill_ok(W, target_id) == agent_exists(W, target_id) /\ W.state[target_id] = "alive"

\* Actions.kill
kill(W, a, target_id) ==
    IF ~kill_ok(W, target_id) THEN W
    ELSE LET witnesses == get_agents_at_location(W, W.location[a]) \ {a, target_id}
             W1 == create_event(W, "kill", a, W.location[a], witnesses,
                                witnessed_or_private(witnesses), NoStatement)
             W2 == [W1 EXCEPT !.state[target_id] = "dead"]
             W3 == add_agent(remove_agent(W2, W2.location[target_id], target_id),
                             W2.location[target_id], target_id)
         IN  [W3 EXCEPT !.behavior[a] = "idle"]

\* a variant of the constructor that accepts any predicate
statement_ok_any(predicate) == TRUE

\* Statement.__init__ accepts the predicate
statement_ok(predicate) == predicate \in Predicates

\* Statement.__init__
Statement(predicate, subject, value, speaker) ==
    [predicate |-> predicate, subject |-> subject, value |-> value, speaker |-> speaker]

\* a variant that leaves the speaker in the voting behaviour
say_then_voting(W, a, predicate, subject, value) ==
    IF ~statement_ok(predicate) THEN W
    ELSE LET witnesses == {x \in AgentIds(W) : W.state[x] = "alive"} \ {a}
             W1 == create_event(W, "say", a, W.location[a], witnesses, "public",
                                Statement(predicate, subject, value, a))
         IN  [W1 EXCEPT !.behavior[a] = "voting"]

\* Actions.say; a predicate outside the enumeration raises before anything is created
say(W, a, predicate, subject, value) ==
    IF ~statement_ok(predicate) THEN W
    ELSE LET witnesses == {x \in AgentIds(W) : W.state[x] = "alive"} \ {a}
             W1 == create_event(W, "say", a, W.location[a], witnesses, "public",
                                Statement(predicate, subject, value, a))
         IN  [W1 EXCEPT !.behavior[a] = "idle"]

\* Actions.set_idle, Actions.set_task, Actions.set_voting
set_behavior(W, a, behavior) == [W EXCEPT !.behavior[a] = behavior]

\* Actions.apply; arg is the room of an enter, the target of a kill, the
\* <<predicate, subject, value>> of a say
apply(W, a, action_name, arg) ==
    IF W.state[a] # "alive" THEN W
    ELSE IF action_name = "enter" THEN enter(W, a, arg)
    ELSE IF action_name = "sabo" THEN sabo(W, a)
    ELSE IF action_name = "report" THEN report(W, a)
    ELSE IF action_name = "kill" THEN kill(W, a, arg)
    ELSE IF action_name = "say" THEN say(W, a, arg[1], arg[2], arg[3])
    ELSE IF action_name \in {"idle", "task", "voting"} THEN set_behavior(W, a, action_name)
    ELSE W

\* what Actions.apply gives back: an Event, None, or the ValueError of a malformed say
apply_returns(W, a, action_name, arg) ==
    IF W.state[a] # "alive" THEN "none"
    ELSE IF action_name = "enter" THEN (IF enter_ok(W, a, arg) THEN "event" ELSE "none")
    ELSE IF action_name \in {"sabo", "report"} THEN "event"
    ELSE IF action_name = "kill" THEN (IF kill_ok(W, arg) THEN "event" ELSE "none")
    ELSE IF action_name = "say" THEN (IF statement_ok(arg[1]) THEN "event" ELSE "error")
    ELSE "none"

\* ------------------------------------------------------------ win/loss
num_alive(W, r) == Cardinality({a \in AgentIds(W) : W.state[a] = "alive" /\ W.role[a] = r})

\* a variant of the bad-win test that needs the bad agents to outnumber the good
bad_wins_outnumber(num_good, num_bad) == num_good = 0 \/ (num_bad > num_good /\ num_bad > 0)

\* the bad-win test of World._check_game_over
bad_wins(num_good, num_bad) == num_good = 0 \/ (num_bad >= num_good /\ num_bad > 0)

\* World._check_game_over
check_game_over(W) ==
    LET num_good == num_alive(W, "good")
        num_bad == num_alive(W, "bad")
    IN  IF bad_wins(num_good, num_bad) THEN [W EXCEPT !.result = BadWin]
        ELSE IF num_bad = 0 THEN [W EXCEPT !.result = GoodWin]
        ELSE W

\* World.game_over
game_over(W) == W.result # NoResult

\* ------------------------------------------------------------ votes
\* the number of worlds of a in which x is bad
bad_count(W, a, x) == Len(SelectSeq(W.worlds[a], LAMBDA w : w[x] = "bad"))

MaxOf(S) == CHOOSE m \in S : \A y \in S : y <= m
MinOf(S) == CHOOSE m \in S : \A y \in S : m <= y

\* NPC.vote for a good NPC
vote_good(W, a) ==
    LET scored == {x \in AgentIds(W) : x # a /\ W.state[x] = "alive"}
    IN  IF scored = {} THEN NoAgent
        ELSE LET max_score == MaxOf({bad_count(W, a, x) : x \in scored})
                 candidates == {x \in scored : bad_count(W, a, x) = max_score}
             IN  IF max_score <= 0 THEN NoAgent
                 ELSE IF Cardinality(candidates) = 1 THEN MinOf(candidates)
                 ELSE LET max_sus == MaxOf({W.sus[a][c] : c \in candidates})
                          top == {c \in candidates : W.sus[a][c] = max_sus}
                      IN  IF max_sus > 0 /\ Cardinality(top) = 1 THEN MinOf(top)
                          ELSE NoAgent

\* Agent.vote, which NPC.vote falls back to for a bad NPC
vote_base(W, a) ==
    IF W.worlds[a] = << >> THEN NoAgent
    ELSE LET any_world == W.worlds[a][1]
             named == {x \in AgentIds(W) : any_world[x] = "bad" /\ W.state[x] = "alive"}
         IN  IF named = {} THEN NoAgent ELSE MinOf(named)

\* Player.vote: the ballots the prompt accepts
vote_player(W, a) ==
    {x \in AgentIds(W) : x # a /\ W.state[x] = "alive"} \cup {NoAgent}

\* agent.vote(world): the ballots agent a can cast
vote(W, a) ==
    IF ~IsNPC(W, a) THEN vote_player(W, a)
    ELSE IF W.role[a] = "good" THEN {vote_good(W, a)}
    ELSE {vote_base(W, a)}

\* the tally of a sequence of ballots, as a count per agent
tally(W, ballots) ==
    [x \in AgentIds(W) |-> Cardinality({i \in DOMAIN ballots : ballots[i] = x})]

\* every way the agents of queue can vote, as sequences of ballots
RECURSIVE ballots_of(_, _)
ballots_of(W, queue) ==
    IF queue = << >> THEN {<< >>}
    ELSE {<<b>> \o rest : b \in vote(W, Head(queue)), rest \in ballots_of(W, Tail(queue))}

\* the winners of a tally: the ids holding the highest count
winners(votes) ==
    LET cast == {x \in DOMAIN votes : votes[x] > 0}
    IN  IF cast = {} THEN {}
        ELSE {x \in cast : \A y \in cast : votes[y] <= votes[x]}

\* ------------------------------------------------------------ statements
\* the defences both statement policies can fall back to, and silence
fallback_statements(W, a) ==
    {Statement("location", a, W.location[a], a), Statement("did", a, "task", a), NoStatement}

\* npc_policy._choose_statement_good
choose_statement_good(W, a) ==
    LET scored == {x \in AgentIds(W) : x # a /\ W.state[x] = "alive"}
        max_score == MaxOf({bad_count(W, a, x) : x \in scored})
        candidates == {x \in scored : bad_count(W, a, x) = max_score}
        max_sus == MaxOf({W.sus[a][c] : c \in candidates})
        best_target == MinOf({c \in candidates : W.sus[a][c] = max_sus})
        accusation ==
            IF W.worlds[a] = << >> \/ scored = {} THEN {}
            ELSE IF max_score <= 0 THEN {}
            ELSE IF Cardinality(candidates) = 1
            THEN IF 2 * max_score >= Len(W.worlds[a])
                 THEN {Statement("role", MinOf(candidates), "bad", a)} ELSE {}
            ELSE IF max_sus > high_sus THEN {Statement("role", best_target, "bad", a)}
            ELSE {}
    IN  accusation \cup fallback_statements(W, a)

\* npc_policy._choose_statement_bad
choose_statement_bad(W, a) ==
    LET good_agents == {x \in AgentIds(W) : W.state[x] = "alive" /\ W.role[x] = "good" /\ x # a}
    IN  IF good_agents = {} THEN {NoStatement}
        ELSE {Statement("role", t, "bad", a) : t \in good_agents} \cup fallback_statements(W, a)

\* npc_policy.choose_statement: the statements the policy can return (NoStatement: silent)
choose_statement(W, a) ==
    IF W.role[a] = "good" THEN choose_statement_good(W, a) ELSE choose_statement_bad(W, a)

\* a variant that takes the next agent off the queue on every tick, without waiting
\* for the statement time slice
statements_step_hasty(W) ==
    LET speaking == W.meeting_queue # << >>
        agent == Head(W.meeting_queue)
        popped == [W EXCEPT !.meeting_queue = Tail(@)]
        spoken == IF ~speaking THEN {W}
                  ELSE IF IsNPC(W, agent)
                  THEN {IF st = NoStatement THEN popped
                        ELSE say(popped, agent, st.predicate, st.subject, st.value)
                        : st \in choose_statement(popped, agent)}
                  ELSE {popped}
    IN  {LET W1 == IF speaking THEN [W0 EXCEPT !.meeting_statement_timer = 0] ELSE W0
         IN  IF W1.meeting_queue = << >>
             THEN [W1 EXCEPT !.meeting_step = 1,
                             !.meeting_queue = get_alive_agents(W1),
                             !.meeting_timer = 0]
             ELSE W1
         : W0 \in spoken}

\* a variant that moves from the last statement straight to the resolution step
statements_step_skipping(W) ==
    LET speaking == W.meeting_statement_timer >= meeting_next_statement_time
                    /\ W.meeting_queue # << >>
        agent == Head(W.meeting_queue)
        popped == [W EXCEPT !.meeting_queue = Tail(@)]
        spoken == IF ~speaking THEN {W}
                  ELSE IF IsNPC(W, agent)
                  THEN {IF st = NoStatement THEN popped
                        ELSE say(popped, agent, st.predicate, st.subject, st.value)
                        : st \in choose_statement(popped, agent)}
                  ELSE {popped}
    IN  {LET W1 == IF speaking THEN [W0 EXCEPT !.meeting_statement_timer = 0] ELSE W0
         IN  IF W1.meeting_queue = << >>
             THEN [W1 EXCEPT !.meeting_step = 2,
                             !.meeting_queue = << >>,
                             !.meeting_timer = 0]
             ELSE W1
         : W0 \in spoken}

\* ------------------------------------------------------------ meetings: steps
\* the statements step of World.update_meeting, after the timers advanced
statements_step(W) ==
    LET speaking == W.meeting_statement_timer >= meeting_next_statement_time
                    /\ W.meeting_queue # << >>
        agent == Head(W.meeting_queue)
        popped == [W EXCEPT !.meeting_queue = Tail(@)]
        spoken == IF ~speaking THEN {W}
                  ELSE IF IsNPC(W, agent)
                  THEN {IF st = NoStatement THEN popped
                        ELSE say(popped, agent, st.predicate, st.subject, st.value)
                        : st \in choose_statement(popped, agent)}
                  ELSE {popped}
    IN  {LET W1 == IF speaking THEN [W0 EXCEPT !.meeting_statement_timer = 0] ELSE W0
         IN  IF W1.meeting_queue = << >>
             THEN [W1 EXCEPT !.meeting_step = 1,
                             !.meeting_queue = get_alive_agents(W1),
                             !.meeting_timer = 0]
             ELSE W1
         : W0 \in spoken}

\* a variant that breaks a tie in favour of the first of the winners
meeting_result_first(votes) ==
    IF winners(votes) = {} THEN NoAgent ELSE MinOf(winners(votes))

\* the result Step 1 stores for a tally: the unique winner, or none
meeting_result_of(votes) ==
    IF Cardinality(winners(votes)) = 1 THEN MinOf(winners(votes)) ELSE NoAgent

\* the voting step of World.update_meeting, after the timers advanced
voting_step(W) ==
    IF W.meeting_queue = << >> THEN {W}
    ELSE {LET votes == tally(W, ballots)
          IN  [W EXCEPT !.meeting_votes = votes,
                        !.meeting_result = meeting_result_of(votes),
                        !.meeting_queue = << >>,
                        !.meeting_step = 2,
                        !.meeting_timer = 0]
          : ballots \in ballots_of(W, W.meeting_queue)}

\* a variant that keeps only the worlds in which no dead agent is bad
no_dead_bad(worlds, dead_agents) ==
    SelectSeq(worlds, LAMBDA w : ~(\E d \in dead_agents : w[d] = "bad"))

\* the worlds the secondary pass keeps: those in which not every dead agent is bad
not_all_dead_bad(worlds, dead_agents) ==
    SelectSeq(worlds, LAMBDA w : ~(\A d \in dead_agents : w[d] = "bad"))

RECURSIVE secondary_pass(_, _, _)
\* the elimination loop that follows the vote_result dispatch
secondary_pass(W, agents, dead_agents) ==
    IF agents = << >> THEN W
    ELSE LET a == Head(agents)
             worlds_to_keep == not_all_dead_bad(W.worlds[a], dead_agents)
         IN  secondary_pass(
                 IF W.worlds[a] # << >> /\ worlds_to_keep # << >>
                 THEN [W EXCEPT !.worlds[a] = worlds_to_keep] ELSE W,
                 Tail(agents), dead_agents)

\* the flag World.update_meeting attaches to the vote_result: game_over() as it stands
game_ended_flag(W) == game_over(W)

\* the ejection of World.update_meeting: mark dead, dispatch vote_result, secondary pass
eject(W, voted_out_id) ==
    LET W1 == [W EXCEPT !.state[voted_out_id] = "dead"]
        game_ended == game_ended_flag(W1)
        all_agents_for_event ==
            SetToSeq({a \in AgentIds(W1) : W1.state[a] = "alive" \/ a = voted_out_id})
        location == W1.location[Head(all_agents_for_event)]
        vote_result_event ==
            [Event("vote_result", W1.meeting_reporter_id, location,
                   SeqToSet(all_agents_for_event), "public", NoStatement,
                   W1.events_created + 1)
             EXCEPT !.voted_out_id = voted_out_id,
                    !.game_ended = game_ended,
                    !.votes = W1.meeting_votes]
        W2 == deliver_observation([W1 EXCEPT !.events_created = @ + 1],
                                  all_agents_for_event, vote_result_event)
        alive_agents == get_alive_agents(W2)
        dead_agents == {a \in AgentIds(W2) : W2.state[a] = "dead"}
        num_bad == num_alive(W2, "bad")
    IN  IF ~game_ended /\ Cardinality(dead_agents) >= num_bad /\ num_bad > 0
        THEN secondary_pass(W2, alive_agents, dead_agents)
        ELSE W2

\* a variant that leaves every agent where the meeting put it
restore_locations_nowhere(W, agents) == W

RECURSIVE restore_locations(_, _)
\* the loop of World.update_meeting that returns living agents to where they were
restore_locations(W, agents) ==
    IF agents = << >> THEN W
    ELSE LET a == Head(agents)
             original_location == W.original_locations[a]
         IN  restore_locations(
                 IF original_location # NoLoc
                 THEN LET W1 == remove_agent(W, W.location[a], a)
                          W2 == [W1 EXCEPT !.location[a] = original_location]
                      IN  add_agent(W2, original_location, a)
                 ELSE W,
                 Tail(agents))

\* the result step of World.update_meeting, after the timers advanced
result_step(W) ==
    IF W.meeting_timer < result_delay THEN W
    ELSE LET W1 == IF W.meeting_result # NoAgent /\ agent_exists(W, W.meeting_result)
                   THEN eject(W, W.meeting_result) ELSE W
             alive == get_alive_agents(W1)
             W2 == [W1 EXCEPT !.behavior =
                        [a \in AgentIds(W1) |-> IF W1.state[a] = "alive" THEN "idle" ELSE @[a]]]
             W3 == restore_locations(W2, alive)
         IN  [W3 EXCEPT !.phase = "playing",
                        !.meeting_queue = << >>,
                        !.meeting_reporter_id = NoAgent,
                        !.meeting_votes = NoVotes,
                        !.meeting_result = NoAgent,
                        !.original_locations = [a \in AgentIds(W3) |-> NoLoc]]

\* World.update_meeting: the worlds one call can lead to
update_meeting(W, delta_time) ==
    IF W.phase # "meeting" THEN {W}
    ELSE LET W1 == [W EXCEPT !.meeting_timer = @ + delta_time,
                             !.meeting_statement_timer = @ + delta_time]
         IN  IF W1.meeting_step = 0 THEN statements_step(W1)
             ELSE IF W1.meeting_step = 1 THEN voting_step(W1)
             ELSE IF W1.meeting_step = 2 THEN {result_step(W1)}
             ELSE {W1}

\* ------------------------------------------------------------ NPC policy
Decision(name, arg) == [name |-> name, arg |-> arg]

\* World.get_connected_rooms
get_connected_rooms(W, room) == IF room \in RoomNames(W) THEN W.connections[room] ELSE {}

\* step 4 of both action policies: move to a connected room, do a task, or idle
wander(W, a) ==
    {Decision("enter", r) : r \in get_connected_rooms(W, W.location[a])}
        \cup {Decision("task", "None"), Decision("idle", "None")}

\* steps 3 and 3b of _choose_action_good: close in on the suspect at target_location
chase(W, a, target_location) ==
    IF target_location \in RoomNames(W) /\ target_location # W.location[a]
       /\ are_connected(W, W.location[a], target_location)
    THEN {Decision("enter", target_location)}
    ELSE IF get_connected_rooms(W, W.location[a]) # {}
    THEN {Decision("enter", r) : r \in get_connected_rooms(W, W.location[a])}
    ELSE wander(W, a)

\* npc_policy._choose_action_good
choose_action_good(W, a) ==
    LET has_bad == \E i \in 1..Len(W.worlds[a]) : \E x \in AgentIds(W) : W.worlds[a][i][x] = "bad"
        others == {x \in AgentIds(W) : x # a /\ W.state[x] = "alive"}
        max_sus == MaxOf({W.sus[a][x] : x \in others})
        most_suspicious == MinOf({x \in others : W.sus[a][x] = max_sus})
    IN  IF get_dead_agents_at_location(W, W.location[a]) # {} THEN {Decision("report", "None")}
        ELSE IF W.worlds[a] # << >> /\ has_bad /\ Len(W.worlds[a]) <= report_worlds_threshold
        THEN {Decision("report", "None")}
        ELSE IF W.has_player /\ W.state[1] = "alive" /\ W.sus[a][1] > high_sus
        THEN chase(W, a, W.location[1])
        ELSE IF ~W.has_player /\ others # {} /\ max_sus > high_sus
        THEN chase(W, a, W.location[most_suspicious])
        ELSE wander(W, a)

\* the agents a bad NPC shares its location with
agents_at_location_of(W, a) ==
    {x \in AgentIds(W) : W.state[x] = "alive" /\ W.location[x] = W.location[a] /\ x # a}

\* World._has_kill_opportunity and step 1 of _choose_action_bad: alone with one good agent
has_kill_opportunity(W, a) ==
    /\ W.role[a] = "bad"
    /\ Cardinality(agents_at_location_of(W, a)) = 1
    /\ \A x \in agents_at_location_of(W, a) : W.role[x] = "good"

\* npc_policy._choose_action_bad
choose_action_bad(W, a) ==
    IF has_kill_opportunity(W, a)
    THEN {Decision("kill", MinOf(agents_at_location_of(W, a)))}
    ELSE wander(W, a)

\* npc_policy.choose_action: the decisions the policy can return
choose_action(W, a) ==
    IF W.role[a] = "good" THEN choose_action_good(W, a) ELSE choose_action_bad(W, a)

\* ------------------------------------------------------------ ticks
\* random.uniform(2.0, 8.0): the delays drawn for an NPC's next action
ActionDelays == {2}

\* one NPC's turn in the loop of World.update_npcs
npc_turn(W, a) ==
    IF W.state[a] # "alive" THEN {W}
    ELSE IF W.role[a] = "bad"
            /\ W.current_time - W.last_action_time[a] >= kill_check_interval
            /\ has_kill_opportunity(W, a)
    THEN {[apply(W, a, "kill", MinOf(agents_at_location_of(W, a)))
             EXCEPT !.last_action_time[a] = W.current_time,
                    !.next_action_time[a] = W.current_time + kill_check_interval]}
    ELSE IF W.current_time >= W.next_action_time[a]
    THEN {[apply(W, a, d.name, d.arg)
             EXCEPT !.last_action_time[a] = W.current_time,
                    !.next_action_time[a] = W.current_time + delay]
          : d \in choose_action(W, a), delay \in ActionDelays}
    ELSE {W}

RECURSIVE npc_loop(_, _)
\* the loop over self.npcs of World.update_npcs
npc_loop(Ws, agents) ==
    IF agents = << >> THEN Ws
    ELSE npc_loop(UNION {npc_turn(W, Head(agents)) : W \in Ws}, Tail(agents))

\* a variant that measures the meeting interval from the start of the game instead of
\* from the start of the last meeting
update_npcs_from_zero(W, delta_time) ==
    IF W.phase = "meeting" THEN update_meeting(W, delta_time)
    ELSE LET W1 == [W EXCEPT !.current_time = @ + delta_time]
             alive_agents == get_alive_agents(W1)
         IN  IF W1.current_time >= meeting_interval
                /\ alive_agents # << >>
             THEN {start_meeting(W1, reporter) : reporter \in SeqToSet(alive_agents)}
             ELSE {check_game_over(W2) : W2 \in npc_loop({W1}, npcs(W1))}

\* a variant that lets the game clock run while a meeting is in progress
update_npcs_clock_running(W, delta_time) ==
    LET W1 == [W EXCEPT !.current_time = @ + delta_time]
        alive_agents == get_alive_agents(W1)
    IN  IF W.phase = "meeting" THEN update_meeting(W1, delta_time)
        ELSE IF W1.current_time - W1.last_meeting_time >= meeting_interval
                /\ alive_agents # << >>
        THEN {start_meeting(W1, reporter) : reporter \in SeqToSet(alive_agents)}
        ELSE {check_game_over(W2) : W2 \in npc_loop({W1}, npcs(W1))}

\* World.update_npcs: the worlds one call can lead to
update_npcs(W, delta_time) ==
    IF W.phase = "meeting" THEN update_meeting(W, delta_time)
    ELSE LET W1 == [W EXCEPT !.current_time = @ + delta_time]
             alive_agents == get_alive_agents(W1)
         IN  IF W1.current_time - W1.last_meeting_time >= meeting_interval
                /\ alive_agents # << >>
             THEN {start_meeting(W1, reporter) : reporter \in SeqToSet(alive_agents)}
             ELSE {check_game_over(W2) : W2 \in npc_loop({W1}, npcs(W1))}

\* the win/loss check is reached by this call of update_npcs
runs_check(W, delta_time) ==
    /\ W.phase # "meeting"
    /\ ~(W.current_time + delta_time - W.last_meeting_time >= meeting_interval
         /\ get_alive_agents(W) # << >>)

\* ------------------------------------------------------------ state
VARIABLES
    role,                    \* agent.role, per agent id, in roster order
    has_player,              \* World.player is a Player (agent 1); otherwise all are NPCs
    rooms,                   \* the room names World was created with
    connections,             \* Room.connected_rooms per room
    state,                   \* agent.state: "alive" | "dead"
    location,                \* agent.location
    behavior,                \* agent.behavior
    worlds,                  \* agent.knowledge["worlds"]
    memory,                  \* agent.knowledge["memory"]
    sus,                     \* npc.sus
    next_action_time,        \* npc.next_action_time
    last_action_time,        \* npc.last_action_time
    room_agents,             \* Room.agents per room
    room_dead,               \* Room.dead_agents per room
    result,                  \* World.result
    current_time,            \* World.current_time
    event_history,           \* World.event_history
    events_created,          \* the number of Event objects constructed so far
    phase,                   \* World.phase
    meeting_timer,           \* World.meeting_timer
    meeting_step,            \* World.meeting_step
    meeting_queue,           \* World.meeting_queue
    meeting_reporter_id,     \* World.meeting_reporter_id
    meeting_statement_timer, \* World.meeting_statement_timer
    original_locations,      \* World.original_locations
    last_meeting_time,       \* World.last_meeting_time
    meeting_votes,           \* World.meeting_votes
    meeting_result,          \* World.meeting_result
    last_call,               \* the latest call made on the world and what it returned
    calls_made               \* the number of direct Actions.apply calls so far

vars == <<role, has_player, rooms, connections, state, location, behavior, worlds, memory,
          sus, next_action_time, last_action_time, room_agents, room_dead, result,
          current_time, event_history, events_created, phase, meeting_timer, meeting_step,
          meeting_queue, meeting_reporter_id, meeting_statement_timer, original_locations,
          last_meeting_time, meeting_votes, meeting_result, last_call,
          calls_made>>

\* the World object as one value
world ==
    [role |-> role, has_player |-> has_player, rooms |-> rooms, connections |-> connections,
     state |-> state, location |-> location, behavior |-> behavior, worlds |-> worlds,
     memory |-> memory, sus |-> sus, next_action_time |-> next_action_time,
     last_action_time |-> last_action_time, room_agents |-> room_agents,
     room_dead |-> room_dead, result |-> result, current_time |-> current_time,
     event_history |-> event_history, events_created |-> events_created, phase |-> phase,
     meeting_timer |-> meeting_timer, meeting_step |-> meeting_step,
     meeting_queue |-> meeting_queue, meeting_reporter_id |-> meeting_reporter_id,
     meeting_statement_timer |-> meeting_statement_timer,
     original_locations |-> original_locations, last_meeting_time |-> last_meeting_time,
     meeting_votes |-> meeting_votes, meeting_result |-> meeting_result]

\* the next state is the World value W
becomes(W) ==
    /\ role' = W.role /\ has_player' = W.has_player /\ rooms' = W.rooms
    /\ connections' = W.connections /\ state' = W.state /\ location' = W.location
    /\ behavior' = W.behavior /\ worlds' = W.worlds /\ memory' = W.memory /\ sus' = W.sus
    /\ next_action_time' = W.next_action_time /\ last_action_time' = W.last_action_time
    /\ room_agents' = W.room_agents /\ room_dead' = W.room_dead /\ result' = W.result
    /\ current_time' = W.current_time /\ event_history' = W.event_history
    /\ events_created' = W.events_created /\ phase' = W.phase
    /\ meeting_timer' = W.meeting_timer /\ meeting_step' = W.meeting_step
    /\ meeting_queue' = W.meeting_queue /\ meeting_reporter_id' = W.meeting_reporter_id
    /\ meeting_statement_timer' = W.meeting_statement_timer
    /\ original_locations' = W.original_locations
    /\ last_meeting_time' = W.last_meeting_time /\ meeting_votes' = W.meeting_votes
    /\ meeting_result' = W.meeting_result

\* ------------------------------------------------------------ construction
\* World._initialize_rooms: the second room is the hub, every other room connects to it
initialize_rooms(room_names) ==
    [r \in SeqToSet(room_names) |->
        IF Len(room_names) < 2 THEN {}
        ELSE IF r = room_names[2] THEN SeqToSet(room_names) \ {r}
        ELSE {room_names[2]}]

\* World._initialize_sus: every NPC starts with 0 for every agent; a Player has no sus
initialize_sus(roles, player) ==
    [a \in 1..Len(roles) |-> IF player /\ a = 1 THEN << >> ELSE [x \in 1..Len(roles) |-> 0]]

\* World._initialize_npc_times: current_time (0 in the constructor) plus the delay drawn
initialize_npc_times(roles, player, delays) ==
    [a \in 1..Len(roles) |-> IF player /\ a = 1 THEN 0 ELSE 0 + delays[a]]

\* World.__init__ for a roster already placed in rooms: the World it builds
new_world(roles, player, room_names, locations, delays) ==
    LET ids == 1..Len(roles)
    IN  [role |-> roles, has_player |-> player, rooms |-> room_names,
         connections |-> initialize_rooms(room_names),
         state |-> [a \in ids |-> "alive"],
         location |-> locations,
         behavior |-> [a \in ids |-> "idle"],
         worlds |-> initialize_all_worlds(roles),
         memory |-> [a \in ids |-> << >>],
         sus |-> initialize_sus(roles, player),
         next_action_time |-> initialize_npc_times(roles, player, delays),
         last_action_time |-> [a \in ids |-> 0],
         room_agents |-> [r \in SeqToSet(room_names) |-> {a \in ids : locations[a] = r}],
         room_dead |-> [r \in SeqToSet(room_names) |-> {}],
         result |-> NoResult, current_time |-> 0, event_history |-> << >>,
         events_created |-> 0, phase |-> "playing", meeting_timer |-> 0, meeting_step |-> 0,
         meeting_queue |-> << >>, meeting_reporter_id |-> NoAgent,
         meeting_statement_timer |-> 0,
         original_locations |-> [a \in ids |-> NoLoc],
         last_meeting_time |-> 0, meeting_votes |-> NoVotes, meeting_result |-> NoAgent]

\* the worlds the game specification starts from: a bad player with two good NPCs and
\* the meeting room, a good player with a bad NPC in a layout without the meeting
\* room, and three NPCs without a player
Configs ==
    {[roles |-> <<"bad", "good", "good">>, player |-> TRUE, room_names |-> <<"A", "B", "E">>],
     [roles |-> <<"good", "bad">>, player |-> TRUE, room_names |-> <<"A", "B">>],
     [roles |-> <<"good", "bad", "good">>, player |-> FALSE, room_names |-> <<"A", "B", "E">>]}
\* random.uniform(1.0, 5.0): the delays drawn for an NPC's first action
InitialDelays == {2}
\* the delta_time the drivers call update_npcs with (main.py: 1.0 per turn)
Deltas == {1}

NoCall == [op |-> "new", agent |-> NoAgent, action |-> "None", returns |-> "none",
           checked |-> FALSE]

\* where the agents start: all in the first room, or agent 1 there and the others in
\* the second room (World.__init__ puts a default player in the first room and each
\* default NPC in a random room)
Placements(n, room_names) ==
    {[a \in 1..n |-> room_names[1]],
     [a \in 1..n |-> IF a = 1 THEN room_names[1] ELSE room_names[2]]}

\* the variables hold the World value W
starts_as(W) ==
    /\ role = W.role /\ has_player = W.has_player /\ rooms = W.rooms
    /\ connections = W.connections /\ state = W.state /\ location = W.location
    /\ behavior = W.behavior /\ worlds = W.worlds /\ memory = W.memory /\ sus = W.sus
    /\ next_action_time = W.next_action_time
    /\ last_action_time = W.last_action_time
    /\ room_agents = W.room_agents /\ room_dead = W.room_dead /\ result = W.result
    /\ current_time = W.current_time /\ event_history = W.event_history
    /\ events_created = W.events_created /\ phase = W.phase
    /\ meeting_timer = W.meeting_timer /\ meeting_step = W.meeting_step
    /\ meeting_queue = W.meeting_queue
    /\ meeting_reporter_id = W.meeting_reporter_id
    /\ meeting_statement_timer = W.meeting_statement_timer
    /\ original_locations = W.original_locations
    /\ last_meeting_time = W.last_meeting_time /\ meeting_votes = W.meeting_votes
    /\ meeting_result = W.meeting_result

Init ==
    \E c \in Configs :
      \E locations \in Placements(Len(c.roles), c.room_names),
         delays \in [1..Len(c.roles) -> InitialDelays] :
        /\ starts_as(new_world(c.roles, c.player, c.room_names, locations, delays))
        /\ last_call = NoCall
        /\ calls_made = 0

\* ------------------------------------------------------------ operations
Agents == 1..Len(role)
\* the agents the drivers call Actions.apply for directly: the player (main.py, visualizer.py)
Callers == IF has_player THEN {1} ELSE {}
\* the model runs a World within its bounds
within_bounds(W) ==
    /\ W.events_created <= MaxEvents
    /\ W.current_time <= MaxTime
    /\ W.meeting_timer <= MaxMeetingTimer
    /\ W.meeting_statement_timer <= MaxMeetingTimer

\* a call Actions.apply(world, agent, action_name, arg)
Call(a, action_name, arg) ==
    /\ calls_made < MaxCalls
    /\ calls_made' = calls_made + 1
    /\ within_bounds(apply(world, a, action_name, arg))
    /\ becomes(apply(world, a, action_name, arg))
    /\ last_call' = [op |-> "apply", agent |-> a, action |-> action_name,
                     returns |-> apply_returns(world, a, action_name, arg),
                     checked |-> FALSE]

\* the room names a caller passes to enter: the world's rooms and one it does not have
ApplyEnter == \E a \in Callers, r \in SeqToSet(rooms) \cup {"Z"} : Call(a, "enter", r)

ApplySabo == \E a \in Callers : Call(a, "sabo", "None")

ApplyReport == \E a \in Callers : Call(a, "report", "None")

\* the targets a caller passes to kill: the other agents and an id the roster lacks
ApplyKill == \E a \in Callers : \E t \in (Agents \ {a}) \cup {NoAgent} : Call(a, "kill", t)

\* the statements a caller passes to say: accusations and a malformed one
SayArgs(a) ==
    {<<"role", x, "bad">> : x \in Agents \ {a}} \cup {<<"mood", a, "bad">>}

ApplySay == \E a \in Callers : \E s \in SayArgs(a) : Call(a, "say", s)

\* a behavior state, and an action name Actions.apply does not know
ApplyBehavior == \E a \in Callers, b \in {"voting", "dance"} :
    Call(a, b, "None")

\* a call World.update_npcs(delta_time)
Tick == \E delta_time \in Deltas : \E W \in update_npcs(world, delta_time) :
    /\ within_bounds(W)
    /\ becomes(W)
    /\ UNCHANGED calls_made
    /\ last_call' = [op |-> "update_npcs", agent |-> NoAgent, action |-> "None",
                     returns |-> "none", checked |-> runs_check(world, delta_time)]

Next == ApplyEnter \/ ApplySabo \/ ApplyReport \/ ApplyKill \/ ApplySay \/ ApplyBehavior \/ Tick

Spec == Init /\ [][Next]_vars

\* ------------------------------------------------------------ construction steps
\* every roster of up to MaxAgents agents
Rosters == UNION {[1..n -> Roles] : n \in 1..MaxAgents}

Constructing == [op |-> "__init__", agent |-> NoAgent, action |-> "None", returns |-> "none",
                 checked |-> FALSE]

\* World.__init__ before it initializes beliefs: the agents are as Agent.__init__ and
\* NPC.__init__ made them (no worlds, an empty sus, next_action_time 0)
InitNew ==
    \E roles \in Rosters, player \in BOOLEAN :
        LET ids == 1..Len(roles)
            W == new_world(roles, player, <<"A", "B">>, [a \in ids |-> "A"],
                           [a \in ids |-> 0])
        IN  /\ starts_as([W EXCEPT !.worlds = [a \in ids |-> << >>],
                                   !.sus = [a \in ids |-> << >>]])
            /\ last_call = Constructing
            /\ calls_made = 0

\* the end of World.__init__: _initialize_all_worlds, _initialize_sus, _initialize_npc_times
InitializeAll ==
    /\ last_call.op = "__init__"
    /\ \E delays \in [Agents -> InitialDelays] :
         becomes([world EXCEPT !.worlds = initialize_all_worlds(role),
                               !.sus = initialize_sus(role, has_player),
                               !.next_action_time =
                                   initialize_npc_times(role, has_player, delays)])
    /\ last_call' = NoCall
    /\ UNCHANGED calls_made

SpecNew == InitNew /\ [][InitializeAll]_vars

\* ------------------------------------------------------------ belief update steps
\* the rosters the belief-update specification runs: a player with two NPCs and one
\* bad agent, and four NPCs with two bad agents
BeliefConfigs ==
    {[roles |-> <<"good", "good", "bad">>, player |-> TRUE],
     [roles |-> <<"good", "bad", "good", "bad">>, player |-> FALSE]}

\* the ballots of Step 1 that make meeting_result the unique winner: the voters are the
\* agents that were alive at Step 1 (those alive now and the agent voted out, and with a
\* player, who can kill during a meeting, possibly the dead as well); each names another
\* voter or skips
ejection_ballots(W) ==
    IF W.meeting_result = NoAgent THEN {}
    ELSE LET alive == {a \in AgentIds(W) : W.state[a] = "alive"} \cup {W.meeting_result}
             voter_sets == {alive} \cup (IF W.has_player THEN {AgentIds(W)} ELSE {})
         IN  UNION {{ballots \in [voters -> voters \cup {NoAgent}] :
                        /\ \A v \in voters : ballots[v] # v
                        /\ meeting_result_of(tally(W, ballots)) = W.meeting_result}
                    : voters \in voter_sets}

\* the vote_result events World.update_meeting can build in the world W from the
\* ballots: the agent voted out is meeting_result, marked dead before the event is built
vote_result_events(W, ballots) ==
    {[Event("vote_result", W.meeting_reporter_id, "A", AgentIds(W), "public",
            NoStatement, W.events_created + 1)
      EXCEPT !.voted_out_id = W.meeting_result, !.game_ended = game_ended,
             !.votes = tally(W, ballots)]
     : game_ended \in BOOLEAN}

\* the events of the five instant actions, as create_event builds them
action_events(W) ==
    {Event(action, actor, "A", {}, "public", NoStatement, W.events_created + 1)
     : action \in {"enter", "sabo", "report", "kill"}, actor \in AgentIds(W)}
    \cup
    {Event("say", 2, "A", {}, "public", statement, W.events_created + 1)
     : statement \in {Statement(predicate, subject, value, 2)
                      : predicate \in {"role", "location"}, subject \in AgentIds(W),
                        value \in {"bad", "good"}}}

\* the MemoryItems an agent can be handed for the events: observed or heard
memory_items(events) ==
    {MemoryItem(event, source_type, IF source_type = "hearsay" THEN event.actor ELSE NoAgent)
     : event \in events, source_type \in {"observation", "hearsay"}}

\* a world in the middle of a game, all agents in one room: at most one kill has been
\* made (Actions.apply, witnessed by everyone else in the room), and the world is either
\* in play or at the ejection of Step 2, where the agent voted out has just been marked
\* dead and the vote_result is about to be built
InitBelief ==
    \E c \in BeliefConfigs :
      \E killer \in 1..Len(c.roles), target \in 0..Len(c.roles),
         voted_out_id \in 0..Len(c.roles) :
        LET ids == 1..Len(c.roles)
            W == new_world(c.roles, c.player, <<"A", "B">>, [a \in ids |-> "A"],
                           [a \in ids |-> 0])
            W1 == IF target # NoAgent /\ target # killer
                  THEN apply(W, killer, "kill", target) ELSE W
        IN  /\ voted_out_id # NoAgent => W1.state[voted_out_id] = "alive"
            /\ starts_as(IF voted_out_id = NoAgent THEN W1
                         ELSE [W1 EXCEPT !.state[voted_out_id] = "dead",
                                         !.phase = "meeting",
                                         !.meeting_step = 2,
                                         !.meeting_timer = result_delay,
                                         !.meeting_reporter_id =
                                             Head(get_alive_agents(W1)),
                                         !.meeting_result = voted_out_id])
            /\ last_call = NoCall
            /\ calls_made = 0

\* recipient r is handed memory_item: update_knowledge, then update_belief; ballots are
\* the ballots behind the tally of a vote_result (none for any other event)
Handover(r, memory_item, ballots) ==
    /\ becomes(deliver(world, r, memory_item))
    /\ last_call' = [op |-> "update_belief", agent |-> r,
                     action |-> memory_item.event.action, returns |-> "none",
                     checked |-> FALSE, memory_item |-> memory_item, ballots |-> ballots]

\* one recipient is handed one MemoryItem
Process ==
    /\ last_call.op = "new"
    /\ \E r \in Agents :
         \/ \E memory_item \in memory_items(action_events(world)) :
                Handover(r, memory_item, << >>)
         \/ \E ballots \in ejection_ballots(world) :
              \E memory_item \in memory_items(vote_result_events(world, ballots)) :
                Handover(r, memory_item, ballots)
    /\ UNCHANGED calls_made

\* every order in which the agents of S can be processed
orders(S) ==
    {order \in [1..Cardinality(S) -> S] :
        \A i \in DOMAIN order : \A j \in DOMAIN order : i # j => order[i] # order[j]}

\* one event is dispatched to its recipients, processed in some order: a say or a report
\* through the public branch of create_event to the living agents, an enter, a sabo or a
\* kill as an observation to the actor and the living agents with it, a vote_result as
\* an observation to the living agents and the agent voted out
Dispatch ==
    /\ last_call.op = "new"
    /\ \E event \in action_events(world) \cup
                   UNION {vote_result_events(world, ballots)
                          : ballots \in ejection_ballots(world)} :
         LET alive == {a \in Agents : state[a] = "alive"}
             recipients == IF event.action = "vote_result" THEN alive \cup {event.voted_out_id}
                           ELSE IF event.action \in {"say", "report"} THEN alive
                           ELSE alive \cup {event.actor}
         IN  \E order \in orders(recipients) :
               /\ becomes(IF event.action \in {"say", "report"}
                          THEN deliver_public(world, order, event)
                          ELSE deliver_observation(world, order, event))
               /\ last_call' = [op |-> "dispatch", agent |-> NoAgent,
                                action |-> event.action, returns |-> "none",
                                checked |-> FALSE, event |-> event,
                                recipients |-> recipients]
    /\ UNCHANGED calls_made

NextBelief == Process \/ Dispatch

SpecBelief == InitBelief /\ [][NextBelief]_vars

\* ------------------------------------------------------------ meetings under fair ticks
\* the worlds the meeting specification starts from: a bad player with one good NPC,
\* and a good player with a bad and a good NPC and the meeting room
MeetingConfigs ==
    {[roles |-> <<"bad", "good">>, player |-> TRUE, room_names |-> <<"A", "B">>],
     [roles |-> <<"good", "bad", "good">>, player |-> TRUE, room_names |-> <<"A", "B", "E">>]}

\* a new world in which the player's first call is a report: the meeting has just begun
InitMeeting ==
    \E c \in MeetingConfigs :
      \E locations \in Placements(Len(c.roles), c.room_names),
         delays \in [1..Len(c.roles) -> InitialDelays] :
        /\ starts_as(apply(new_world(c.roles, c.player, c.room_names, locations, delays),
                           1, "report", "None"))
        /\ last_call = [op |-> "apply", agent |-> 1, action |-> "report",
                        returns |-> "event", checked |-> FALSE]
        /\ calls_made = 0

\* the calls main.py passes to Actions.apply for the player: the action name and the
\* arguments as typed, so a kill may name any agent of the roster, the player included
typed_calls(a) ==
    {<<"report", "None">>} \cup {<<"kill", t>> : t \in Agents}

\* a call Actions.apply(world, player, action_name, arg) between two ticks of the meeting
Interleave ==
    \E a \in Callers : \E c \in typed_calls(a) :
        /\ phase = "meeting"
        /\ calls_made < MaxInterleaved
        /\ calls_made' = calls_made + 1
        /\ becomes(apply(world, a, c[1], c[2]))
        /\ last_call' = [op |-> "apply", agent |-> a, action |-> c[1],
                         returns |-> apply_returns(world, a, c[1], c[2]),
                         checked |-> FALSE]

\* the meeting timers are only compared with meeting_next_statement_time and the
\* result delay, so a timer past MaxMeetingTimer is kept at MaxMeetingTimer
timers_capped(W) ==
    [W EXCEPT !.meeting_timer = IF @ > MaxMeetingTimer THEN MaxMeetingTimer ELSE @,
              !.meeting_statement_timer = IF @ > MaxMeetingTimer THEN MaxMeetingTimer ELSE @]

\* a call World.update_npcs(delta_time) of the driver loop while the meeting runs
Advance ==
    \E delta_time \in Deltas : \E W \in update_npcs(world, delta_time) :
        /\ phase = "meeting"
        /\ becomes(timers_capped(W))
        /\ UNCHANGED calls_made
        /\ last_call' = [op |-> "update_npcs", agent |-> NoAgent, action |-> "None",
                         returns |-> "none", checked |-> runs_check(world, delta_time)]

NextMeeting == Interleave \/ Advance

\* one meeting from its start to its end; the driver loops call update_npcs on every
\* turn, so the tick is weakly fair
SpecMeeting == InitMeeting /\ [][NextMeeting]_vars /\ WF_vars(Advance)

\* ------------------------------------------------------------ a meeting after the player's calls
\* the world the ejection specification starts from: a bad player with a bad and three
\* good NPCs and the meeting room
EjectConfigs ==
    {[roles |-> <<"bad", "bad", "good", "good", "good">>, player |-> TRUE,
      room_names |-> <<"A", "B", "E">>]}

InitEject ==
    \E c \in EjectConfigs :
      \E locations \in Placements(Len(c.roles), c.room_names),
         delays \in [1..Len(c.roles) -> InitialDelays] :
        /\ starts_as(new_world(c.roles, c.player, c.room_names, locations, delays))
        /\ last_call = NoCall
        /\ calls_made = 0

\* a call Actions.apply(world, player, action_name, arg) before the first meeting
Prepare ==
    \E a \in Callers : \E c \in typed_calls(a) :
        /\ phase = "playing"
        /\ meeting_step = 0
        /\ calls_made < MaxInterleaved
        /\ calls_made' = calls_made + 1
        /\ becomes(apply(world, a, c[1], c[2]))
        /\ last_call' = [op |-> "apply", agent |-> a, action |-> c[1],
                         returns |-> apply_returns(world, a, c[1], c[2]),
                         checked |-> FALSE]

NextEject == Prepare \/ Advance

\* the player's calls, a report among them, and the meeting from its start to its end
SpecEject == InitEject /\ [][NextEject]_vars

\* ------------------------------------------------------------ a call while the votes are due
\* the world the voting specification starts from: a bad player with three good NPCs
\* and the meeting room
VoteConfigs ==
    {[roles |-> <<"bad", "good", "good", "good">>, player |-> TRUE,
      room_names |-> <<"A", "B", "E">>]}

InitVote ==
    \E c \in VoteConfigs :
      \E locations \in Placements(Len(c.roles), c.room_names),
         delays \in [1..Len(c.roles) -> InitialDelays] :
        /\ starts_as(new_world(c.roles, c.player, c.room_names, locations, delays))
        /\ last_call = NoCall
        /\ calls_made = 0

\* the player's turn of main.py between the tick that opened the voting step and the
\* tick that collects the votes: one call Actions.apply(world, player, action_name, arg)
Intervene ==
    \E a \in Callers : \E c \in typed_calls(a) :
        /\ phase = "meeting"
        /\ meeting_step = 1
        /\ last_call.op = "update_npcs"
        /\ calls_made' = calls_made + 1
        /\ becomes(apply(world, a, c[1], c[2]))
        /\ last_call' = [op |-> "apply", agent |-> a, action |-> c[1],
                         returns |-> apply_returns(world, a, c[1], c[2]),
                         checked |-> FALSE]

NextVote == Prepare \/ Intervene \/ Advance

\* the player's calls before the meeting, the meeting, and one call of the player
\* once the voting step has begun
SpecVote == InitVote /\ [][NextVote]_vars

\* ------------------------------------------------------------ the automatic meeting
\* the world the interval specification starts from: a bad player with three good
\* NPCs in a single room, so that no NPC has two worlds or fewer and reports by itself
AutoConfigs ==
    {[roles |-> <<"bad", "good", "good", "good">>, player |-> TRUE, room_names |-> <<"A">>]}

InitAuto ==
    \E c \in AutoConfigs :
      \E delays \in [1..Len(c.roles) -> InitialDelays] :
        /\ starts_as(new_world(c.roles, c.player, c.room_names,
                               [a \in 1..Len(c.roles) |-> c.room_names[1]], delays))
        /\ last_call = NoCall
        /\ calls_made = 0

\* the player's report, once, at any moment of the playing phase
Report ==
    \E a \in Callers :
        /\ phase = "playing"
        /\ calls_made < 1
        /\ calls_made' = calls_made + 1
        /\ becomes(apply(world, a, "report", "None"))
        /\ last_call' = [op |-> "apply", agent |-> a, action |-> "report",
                         returns |-> apply_returns(world, a, "report", "None"),
                         checked |-> FALSE]

\* a call World.update_npcs(delta_time) of the driver loop, in either phase
Turn ==
    \E delta_time \in Deltas : \E W \in update_npcs(world, delta_time) :
        /\ W.current_time <= MaxPlayingTime
        /\ W.events_created <= MaxEvents
        /\ becomes(timers_capped(W))
        /\ UNCHANGED calls_made
        /\ last_call' = [op |-> "update_npcs", agent |-> NoAgent, action |-> "None",
                         returns |-> "none", checked |-> runs_check(world, delta_time)]

NextAuto == Report \/ Turn

\* the turns of a game left to itself, with at most one report by the player
SpecAuto == InitAuto /\ [][NextAuto]_vars

\* ====================================================================== claims
RECURSIVE is_subsequence(_, _)
\* s can be obtained from t by deleting entries
is_subsequence(s, t) ==
    IF s = << >> THEN TRUE
    ELSE IF t = << >> THEN FALSE
    ELSE IF Head(s) = Head(t) THEN is_subsequence(Tail(s), Tail(t))
    ELSE is_subsequence(s, Tail(t))

RECURSIVE binomial(_, _)
binomial(n, k) ==
    IF k = 0 THEN 1 ELSE IF n = 0 THEN 0 ELSE binomial(n - 1, k - 1) + binomial(n - 1, k)

\* the true role assignment as a possible world
truth == [x \in Agents |-> role[x]]

\* the events appended to event_history by the step
new_events == {event_history'[i] : i \in (Len(event_history) + 1)..Len(event_history')}

\* C1: own-role consistency - in every reachable state, every world in an agent's
\* belief state gives that agent its actual role.
C1_OwnRoleConsistency ==
    \A a \in Agents : \A i \in 1..Len(worlds[a]) : worlds[a][i][a] = role[a]

\* an agent that has received a vote result and still holds worlds
C1_Witness ==
    \E a \in Agents : \E i \in 1..Len(memory[a]) :
        /\ memory[a][i].event.action = "vote_result"
        /\ worlds[a] # << >>

\* C2 (as claimed): once initialized, no agent's worlds is ever empty.
C2_WorldsNeverEmpty ==
    \A a \in Agents : worlds[a] # << >>

\* C3: monotonic narrowing - in every step each agent's worlds after the step is a
\* sub-collection of its worlds before the step: nothing is added or modified, and the
\* number of worlds does not increase.
C3_MonotonicNarrowing ==
    [][\A a \in Agents :
          /\ is_subsequence(worlds'[a], worlds[a])
          /\ Len(worlds'[a]) <= Len(worlds[a])]_vars

\* an agent whose worlds have been narrowed below what it started with
C3_Witness ==
    \E a \in Agents :
        /\ worlds[a] # << >>
        /\ Len(worlds[a]) < Len(initial_worlds_of(role, a))

\* C4: belief initialization - a constructed World of n agents with k bad ones gives
\* every good agent exactly C(n-1, k) pairwise distinct worlds, one per size-k subset of
\* the other agents (that subset bad, everyone else and itself good; the single
\* all-good world when k = 0), and every bad agent exactly the true assignment.
C4_BeliefInitialization ==
    last_call.op = "new" =>
        LET n == Len(role)
            k == Cardinality({a \in Agents : role[a] = "bad"})
        IN  \A a \in Agents :
                IF role[a] = "good"
                THEN /\ Len(worlds[a]) = binomial(n - 1, k)
                     /\ \A i, j \in 1..Len(worlds[a]) :
                            i # j => worlds[a][i] # worlds[a][j]
                     /\ SeqToSet(worlds[a]) =
                            {[x \in Agents |-> IF x \in S THEN "bad" ELSE "good"] :
                                S \in {T \in SUBSET (Agents \ {a}) : Cardinality(T) = k}}
                ELSE worlds[a] = << truth >>

\* a constructed World of four agents, two of them bad: a good agent holds three worlds
C4_Witness ==
    /\ last_call.op = "new"
    /\ Len(role) = 4
    /\ Cardinality({a \in Agents : role[a] = "bad"}) = 2
    /\ \E a \in Agents : role[a] = "good" /\ Len(worlds[a]) = 3

\* C5: kill-witness elimination - after a kill by X dispatched as witnessed, the worlds
\* of every witness and of X contain only worlds in which X is bad, and contain every
\* such world the agent held before the kill.
C5_KillWitnessElimination ==
    [][\A e \in new_events :
          (e.action = "kill" /\ e.visibility = "witnessed") =>
              \A a \in (e.witnesses \cup {e.actor}) \cap Agents :
                  /\ \A w \in SeqToSet(worlds'[a]) : w[e.actor] = "bad"
                  /\ \A w \in SeqToSet(worlds[a]) :
                         w[e.actor] = "bad" => w \in SeqToSet(worlds'[a])]_vars

\* the latest event is a witnessed kill by a bad agent, and a good witness that started
\* with more worlds now holds the true assignment only
C5_Witness ==
    /\ event_history # << >>
    /\ LET e == event_history[Len(event_history)]
       IN  /\ e.action = "kill" /\ e.visibility = "witnessed"
           /\ role[e.actor] = "bad"
           /\ \E a \in e.witnesses :
                  /\ role[a] = "good"
                  /\ worlds[a] = << truth >>
                  /\ Len(initial_worlds_of(role, a)) > 1

\* the agents of role r that are alive in the state the step leads to
living_after(r) == Cardinality({a \in Agents : state'[a] = "alive" /\ role[a] = r})

\* the agents of role r that are alive
living(r) == Cardinality({a \in Agents : state[a] = "alive" /\ role[a] = r})

C7_ResultSetByKill ==
    (/\ role = <<"bad", "good", "good">>
     /\ last_call.op = "apply" /\ last_call.action = "kill" /\ last_call.returns = "event"
     /\ living("good") = 0)
        => result = BadWin

\* g1 has b1's kill of g2, its own report and the vote result that ejected b1 in its
\* memory
ejected_after_witnessed_kill ==
    /\ role = <<"bad", "good", "good">>
    /\ state = <<"dead", "alive", "dead">>
    /\ \E i \in 1..Len(memory[2]) :
           memory[2][i].event.action = "kill" /\ memory[2][i].event.actor = 1
    /\ \E i \in 1..Len(memory[2]) :
           memory[2][i].event.action = "report" /\ memory[2][i].event.actor = 2
    /\ \E i \in 1..Len(memory[2]) :
           /\ memory[2][i].event.action = "vote_result"
           /\ memory[2][i].event.voted_out_id = 1

\* C8 (as claimed): in the scenario b1 kills g2 in front of g1, g1 reports and votes b1,
\* b1 is ejected - once b1 is ejected the result is the good-win.
C8_EjectionEndsInGoodWin ==
    ejected_after_witnessed_kill => result = GoodWin

\* C9: voting tie - when the tally has no unique maximum or no votes are cast, the
\* voting step stores no result and neither it nor the result step changes any
\* agent's alive/dead state, worlds or sus, the event log or the game result.
C9_TieEjectsNoOne ==
    [][(/\ last_call'.op = "update_npcs"
        /\ phase = "meeting"
        /\ \/ /\ meeting_step = 1 /\ meeting_step' = 2
              /\ Cardinality(winners(meeting_votes')) # 1
           \/ /\ meeting_step = 2
              /\ Cardinality(winners(meeting_votes)) # 1)
          => /\ meeting_result' = NoAgent
             /\ state' = state /\ worlds' = worlds /\ sus' = sus
             /\ event_history' = event_history /\ result' = result]_vars

\* the voting step has stored a tally in which two agents share the highest count,
\* and no result
C9_Witness ==
    /\ phase = "meeting" /\ meeting_step = 2
    /\ Cardinality(winners(meeting_votes)) = 2
    /\ meeting_result = NoAgent

\* the memory items the dispatch of event e owes agent a, st being the agents' states
\* at the dispatch
dispatched(e, a, st) ==
    LET observation == [event |-> e, source_type |-> "observation",
                        source_id |-> NoAgent, certainty |-> "FACT"]
        hearsay == [event |-> e, source_type |-> "hearsay",
                    source_id |-> e.actor, certainty |-> "UNCERTAIN"]
    IN  IF e.visibility = "private"
        THEN IF a = e.actor THEN <<observation>> ELSE << >>
        ELSE IF e.visibility = "witnessed"
        THEN IF a = e.actor \/ a \in e.witnesses THEN <<observation>> ELSE << >>
        ELSE IF st[a] # "alive" THEN << >>
        ELSE IF a = e.actor THEN <<observation>>
        ELSE <<hearsay>>

RECURSIVE dispatched_all(_, _, _)
\* the items the dispatches of events, in order, owe agent a
dispatched_all(events, a, st) ==
    IF events = << >> THEN << >>
    ELSE dispatched(Head(events), a, st) \o dispatched_all(Tail(events), a, st)

\* C10: dispatch by visibility - the memory items an event created by create_event
\* adds are exactly: private - one observation (FACT) for the actor; witnessed - one
\* observation (FACT) for the actor and for each listed witness; public - one item for
\* every agent alive at the dispatch, an observation (FACT) for the actor and hearsay
\* (UNCERTAIN) naming the actor as source for everyone else; nobody else gets any.
\* (Checked on every step whose events all come from create_event - no vote_result is
\* constructed - and that creates one event, or several without anyone dying: there the
\* agents alive at each dispatch are those alive before the step.)
C10_DispatchByVisibility ==
    [][(/\ events_created' - events_created = Len(event_history') - Len(event_history)
        /\ (Len(event_history') = Len(event_history) + 1 \/ state' = state)) =>
          \A a \in Agents :
              memory'[a] = memory[a] \o
                  dispatched_all(SubSeq(event_history', Len(event_history) + 1,
                                        Len(event_history')), a, state)]_vars

\* the latest event is public: its actor holds it as an observation and another living
\* agent as hearsay from the actor, while a dead agent has no item for it
C10_Witness ==
    /\ event_history # << >>
    /\ LET e == event_history[Len(event_history)]
       IN  /\ e.visibility = "public"
           /\ \E a \in Agents : \E i \in 1..Len(memory[a]) :
                  a = e.actor /\ memory[a][i].event = e
                  /\ memory[a][i].source_type = "observation"
           /\ \E a \in Agents \ {e.actor} : \E i \in 1..Len(memory[a]) :
                  /\ memory[a][i].event = e
                  /\ memory[a][i].source_type = "hearsay"
                  /\ memory[a][i].source_id = e.actor
           /\ \E a \in Agents :
                  /\ state[a] = "dead"
                  /\ \A i \in 1..Len(memory[a]) : memory[a][i].event # e

\* the number of entries of the event log equal to the event e
occurrences(e, log) == Cardinality({i \in 1..Len(log) : log[i] = e})

\* the log t extends the log s: s is its prefix
is_prefix(s, t) == Len(s) <= Len(t) /\ SubSeq(t, 1, Len(s)) = s

\* C11: event log completeness and immutability - every event delivered to any agent
\* as a MemoryItem (enter, sabo, report, kill, say and the vote_result of a meeting)
\* appears exactly once in the shared event log, entries are appended in the order the
\* events occur, and existing entries are never removed, reordered or changed.
C11_EventLogComplete ==
    [][/\ is_prefix(event_history, event_history')
       /\ \A i \in 1..Len(event_history') : \A j \in 1..Len(event_history') :
              i < j => event_history'[i].timestamp < event_history'[j].timestamp
       /\ \A a \in Agents : \A i \in 1..Len(memory'[a]) :
              occurrences(memory'[a][i].event, event_history') = 1]_vars

\* C12: belief-update isolation - processing a MemoryItem for recipient r changes only
\* r's worlds, sus and memory; no other agent's worlds, sus or memory changes, and
\* nothing else of the world does.
C12_BeliefUpdateIsolation ==
    [][last_call'.op = "update_belief" =>
          /\ \A a \in Agents \ {last_call'.agent} :
                 worlds'[a] = worlds[a] /\ sus'[a] = sus[a] /\ memory'[a] = memory[a]
          /\ state' = state /\ role' = role /\ location' = location
          /\ result' = result /\ event_history' = event_history /\ phase' = phase
          /\ room_agents' = room_agents /\ room_dead' = room_dead]_vars

\* an NPC has heard of a sabotage and raised its suspicion of the actor, while another
\* NPC still has no suspicion of that actor
C12_Witness ==
    /\ last_call.op = "update_belief"
    /\ LET r == last_call.agent
           memory_item == last_call.memory_item
       IN  /\ memory_item.certainty = "UNCERTAIN"
           /\ memory_item.event.action = "sabo"
           /\ sus[r] # << >>
           /\ sus[r][memory_item.event.actor] = sabo_sus_delta
           /\ memory[r] = <<memory_item>>
           /\ \E a \in Agents \ {r, memory_item.event.actor} :
                  /\ sus[a] # << >>
                  /\ sus[a][memory_item.event.actor] = 0
                  /\ memory[a] = << >>

\* the MemoryItem a dispatch of event hands recipient a
handed(event, a) ==
    IF event.action \in {"say", "report"} /\ a # event.actor
    THEN MemoryItem(event, "hearsay", event.actor)
    ELSE MemoryItem(event, "observation", NoAgent)

\* C13: dispatch order independence - for a single dispatched event (a vote_result
\* included) the belief states of all agents after the dispatch are the same for every
\* order in which the recipients are processed: each recipient ends with what processing
\* its own item from its own prior belief state gives, and the others are untouched.
C13_DispatchOrderIndependence ==
    [][last_call'.op = "dispatch" =>
          \A a \in Agents :
              LET alone == IF a \in last_call'.recipients
                           THEN deliver(world, a, handed(last_call'.event, a))
                           ELSE world
              IN  /\ worlds'[a] = alone.worlds[a]
                  /\ sus'[a] = alone.sus[a]
                  /\ memory'[a] = alone.memory[a]]_vars

\* a kill was dispatched to three or more recipients, and two of them narrowed their
\* worlds to those with the killer bad
C13_Witness ==
    /\ last_call.op = "dispatch"
    /\ last_call.action = "kill"
    /\ Cardinality(last_call.recipients) >= 3
    /\ \E a \in last_call.recipients : \E b \in last_call.recipients \ {a} :
         /\ worlds[a] # << >> /\ worlds[b] # << >>
         /\ Len(worlds[a]) < Len(initial_worlds_of(role, a))
         /\ Len(worlds[b]) < Len(initial_worlds_of(role, b))
         /\ \A i \in DOMAIN worlds[a] : worlds[a][i][last_call.event.actor] = "bad"
         /\ \A i \in DOMAIN worlds[b] : worlds[b][i][last_call.event.actor] = "bad"

\* the agent a hearsay item raises suspicion of, and by how much: the subject of a say
\* carrying a role-bad statement, the actor of a sabo, nobody otherwise
sus_target(memory_item) ==
    LET event == memory_item.event
    IN  IF event.action = "say" /\ event.statement # NoStatement
           /\ event.statement.predicate = "role" /\ event.statement.value = "bad"
        THEN event.statement.subject
        ELSE IF event.action = "sabo" THEN event.actor
        ELSE NoAgent

sus_delta(memory_item) ==
    IF memory_item.event.action = "say" THEN say_sus_delta ELSE sabo_sus_delta

\* C14: soft-belief adjustment - when an agent with a suspicion map processes a hearsay
\* say carrying a statement with predicate role and value bad about subject Y, its
\* sus[Y] increases by exactly 0.1 if Y is tracked and Y is not the receiver, and is
\* unchanged otherwise; a hearsay sabo by actor Z increases sus[Z] by exactly 0.2 under
\* the same conditions; every other hearsay item leaves sus unchanged.
C14_SoftBeliefAdjustment ==
    [][(/\ last_call'.op = "update_belief"
        /\ last_call'.memory_item.certainty = "UNCERTAIN"
        /\ sus[last_call'.agent] # << >>) =>
          LET r == last_call'.agent
              target == sus_target(last_call'.memory_item)
          IN  sus'[r] = IF target \in DOMAIN sus[r] /\ target # r
                        THEN [sus[r] EXCEPT ![target] = @ + sus_delta(last_call'.memory_item)]
                        ELSE sus[r]]_vars

\* C15: suspicion scores are non-negative in every reachable state and never decrease:
\* for every agent and every target, sus[target] after a step is >= its value before,
\* and an agent's suspicion of itself stays at its initial 0.
C15_SuspicionMonotone ==
    /\ \A a \in Agents : \A t \in DOMAIN sus[a] : sus[a][t] >= 0
    /\ [][\A a \in Agents :
              /\ DOMAIN sus'[a] = DOMAIN sus[a]
              /\ \A t \in DOMAIN sus[a] : sus'[a][t] >= sus[a][t] /\ sus'[a][t] >= 0
              /\ sus[a] # << >> => sus[a][a] = 0 /\ sus'[a][a] = 0]_vars

\* an NPC has been accused by the player and has heard it (its suspicion of itself is
\* still 0), and another NPC's suspicion of someone has been raised twice
C15_Witness ==
    /\ \E a \in Agents : \E i \in DOMAIN memory[a] :
         /\ sus[a] # << >>
         /\ memory[a][i].certainty = "UNCERTAIN"
         /\ memory[a][i].event.action = "say"
         /\ memory[a][i].event.statement.predicate = "role"
         /\ memory[a][i].event.statement.subject = a
         /\ memory[a][i].event.statement.value = "bad"
         /\ sus[a][a] = 0
    /\ \E b \in Agents : \E t \in DOMAIN sus[b] : sus[b][t] >= 2 * say_sus_delta

\* the MemoryItems agent a receives in the step
new_items(a) == SubSeq(memory'[a], Len(memory[a]) + 1, Len(memory'[a]))

\* C16: worlds change only on hard kill and vote evidence - processing any hearsay
\* (UNCERTAIN) MemoryItem, or a FACT MemoryItem whose action is enter, report, sabo or
\* say, leaves the recipient's worlds exactly unchanged; worlds is modified only by an
\* observed kill, a vote_result, or the secondary pass that follows a vote_result.
C16_WorldsChangeOnlyOnHardEvidence ==
    [][\A a \in Agents :
          worlds'[a] # worlds[a] =>
              \E i \in DOMAIN new_items(a) :
                  /\ new_items(a)[i].certainty = "FACT"
                  /\ new_items(a)[i].event.action \in {"kill", "vote_result"}]_vars

\* an agent has been told of a kill (hearsay) by someone it holds good in one world and
\* bad in another, and still holds exactly its initial worlds
C16_Witness ==
    /\ last_call.op = "update_belief"
    /\ LET r == last_call.agent
           memory_item == last_call.memory_item
       IN  /\ memory_item.certainty = "UNCERTAIN"
           /\ memory_item.event.action = "kill"
           /\ memory[r] = <<memory_item>>
           /\ worlds[r] = initial_worlds_of(role, r)
           /\ \E i \in DOMAIN worlds[r] : worlds[r][i][memory_item.event.actor] = "good"
           /\ \E i \in DOMAIN worlds[r] : worlds[r][i][memory_item.event.actor] = "bad"

\* the worlds of agent a in which x is good
worlds_with_good(a, x) == SelectSeq(worlds[a], LAMBDA w : w[x] = "good")

\* C17: vote_result rule (b) - when an agent processes a vote_result in which someone
\* else was voted out and game_ended is false, its worlds afterwards is exactly the prior
\* worlds in which the voted-out agent is good, unless no prior world has the voted-out
\* agent good, in which case worlds is unchanged; when game_ended is true nothing is
\* eliminated.
C17_VoteResultOtherVotedOut ==
    [][(/\ last_call'.op = "update_belief"
        /\ last_call'.memory_item.certainty = "FACT"
        /\ last_call'.memory_item.event.action = "vote_result"
        /\ last_call'.memory_item.event.voted_out_id # last_call'.agent) =>
          LET r == last_call'.agent
              event == last_call'.memory_item.event
              kept == worlds_with_good(r, event.voted_out_id)
          IN  worlds'[r] = IF ~event.game_ended /\ kept # << >> THEN kept
                           ELSE worlds[r]]_vars

\* an agent has processed the vote_result of someone else's ejection in a game that goes
\* on, and of its three initial worlds only the one with the voted-out agent good is left
C17_Witness ==
    /\ last_call.op = "update_belief"
    /\ LET r == last_call.agent
           memory_item == last_call.memory_item
       IN  /\ memory_item.certainty = "FACT"
           /\ memory_item.event.action = "vote_result"
           /\ memory_item.event.voted_out_id # r
           /\ ~memory_item.event.game_ended
           /\ memory[r] = <<memory_item>>
           /\ Len(initial_worlds_of(role, r)) = 3
           /\ Len(worlds[r]) = 1
           /\ worlds[r][1][memory_item.event.voted_out_id] = "good"

\* the worlds of agent a in which none of the agents of S is good
worlds_without_good(a, S) == SelectSeq(worlds[a], LAMBDA w : \A v \in S : w[v] # "good")

\* C18: vote_result rule (a) - when a good agent processes the vote_result of its own
\* ejection, it discards, progressively for every still-living agent who cast a ballot
\* in that vote, the worlds in which that voter is good; if the filtering would leave no
\* world, its worlds stays non-empty and equal to a set it held before. Agents who
\* received votes but did not vote are not treated as voters.
C18_VoteResultSelfVotedOut ==
    [][(/\ last_call'.op = "update_belief"
        /\ last_call'.memory_item.certainty = "FACT"
        /\ last_call'.memory_item.event.action = "vote_result"
        /\ last_call'.memory_item.event.voted_out_id = last_call'.agent
        /\ role[last_call'.agent] = "good"
        /\ worlds[last_call'.agent] # << >>) =>
          LET r == last_call'.agent
              ballots == last_call'.ballots
              voters == {v \in DOMAIN ballots : ballots[v] # NoAgent /\ state[v] = "alive"}
          IN  IF worlds_without_good(r, voters) # << >>
              THEN worlds'[r] = worlds_without_good(r, voters)
              ELSE \E S \in SUBSET voters :
                       worlds'[r] # << >> /\ worlds'[r] = worlds_without_good(r, S)]_vars

\* the living roster after the step satisfies a win condition of the win/loss rule
win_condition_after ==
    \/ living_after("good") = 0
    \/ (living_after("bad") >= living_after("good") /\ living_after("bad") > 0)
    \/ living_after("bad") = 0

\* C19: game_ended of a vote_result is evaluated after the ejection - when a meeting
\* resolves with a unique winner, the vote_result event's game_ended flag equals the
\* outcome of the win/loss rule applied to the living roster after the winner has been
\* marked dead (true iff that roster satisfies a win condition), and every agent that
\* processes the vote_result sees that value.
C19_GameEndedAfterEjection ==
    [][\A a \in Agents : \A i \in DOMAIN new_items(a) :
          new_items(a)[i].event.action = "vote_result" =>
              new_items(a)[i].event.game_ended = win_condition_after]_vars

\* C20: no nested meetings - a report action (or an automatic trigger) that occurs while
\* the phase is already MEETING does not restart or alter the running meeting: the
\* meeting step, timers, speaker/voter queue, reporter id and remembered original
\* locations are unchanged by it. (update_npcs never reaches its automatic trigger in
\* the meeting phase, so the report is the only way to call start_meeting there.)
C20_NoNestedMeetings ==
    [][(/\ phase = "meeting"
        /\ last_call'.op = "apply"
        /\ last_call'.action = "report") =>
          /\ phase' = "meeting"
          /\ meeting_step' = meeting_step
          /\ meeting_timer' = meeting_timer
          /\ meeting_statement_timer' = meeting_statement_timer
          /\ meeting_queue' = meeting_queue
          /\ meeting_reporter_id' = meeting_reporter_id
          /\ original_locations' = original_locations
          /\ last_meeting_time' = last_meeting_time
          /\ meeting_votes' = meeting_votes
          /\ meeting_result' = meeting_result]_vars

\* the player's report has just gone out (it is the latest event) while the meeting
\* another agent called had been running for some time
C20_Witness ==
    /\ last_call.op = "apply"
    /\ last_call.action = "report"
    /\ last_call.returns = "event"
    /\ phase = "meeting"
    /\ meeting_timer > 0
    /\ meeting_reporter_id # last_call.agent
    /\ event_history # << >>
    /\ event_history[Len(event_history)].action = "report"
    /\ event_history[Len(event_history)].actor = last_call.agent

\* C21: meeting phase order - the phase and step only ever move PLAYING ->
\* MEETING(statements, step 0) -> MEETING(voting, step 1) -> MEETING(resolution, step 2)
\* -> PLAYING: a meeting begins at step 0, a step inside a meeting stays or moves to
\* the next one, the votes are tallied on the step from voting to resolution and at no
\* other moment, and the meeting ends only from the resolution step, once the timer
\* restarted at the end of the voting has reached the display delay.
C21_MeetingPhaseOrder ==
    [][/\ (phase = "playing" /\ phase' = "meeting") => meeting_step' = 0
       /\ (phase = "meeting" /\ phase' = "meeting") =>
             /\ meeting_step' \in {meeting_step, meeting_step + 1}
             /\ meeting_step' \in 0..2
       /\ (phase = "meeting" /\ meeting_step = 1 /\ meeting_step' = 2) =>
             /\ meeting_votes = NoVotes
             /\ meeting_votes' # NoVotes
             /\ meeting_timer' = 0
       /\ (phase = "meeting" /\ phase' = "playing") =>
             /\ meeting_step = 2
             /\ meeting_votes # NoVotes
             /\ meeting_votes' = NoVotes
             /\ meeting_timer' >= result_delay
       /\ meeting_votes' # meeting_votes =>
             /\ phase = "meeting"
             /\ \/ meeting_step = 1 /\ meeting_step' = 2 /\ phase' = "meeting"
                \/ meeting_step = 2 /\ phase' = "playing"
       /\ phase' \in {"playing", "meeting"}]_vars

\* a meeting has run through its three steps and the game is back in the playing phase
C21_Witness ==
    /\ phase = "playing"
    /\ meeting_step = 2
    /\ meeting_votes = NoVotes
    /\ last_call.op = "update_npcs"

\* the tick that led from the current world to W moved the meeting on: it ended it,
\* reached the next step, took an agent off the queue, or advanced a timer that the
\* current step is still waiting for
moved_on(W) ==
    \/ W.phase = "playing"
    \/ W.meeting_step > meeting_step
    \/ Len(W.meeting_queue) < Len(meeting_queue)
    \/ /\ meeting_step = 0 /\ meeting_queue # << >>
       /\ meeting_statement_timer < meeting_next_statement_time
       /\ W.meeting_statement_timer > meeting_statement_timer
    \/ /\ meeting_step = 2
       /\ meeting_timer < result_delay
       /\ W.meeting_timer > meeting_timer

\* C22: meeting liveness - every meeting that starts eventually returns to the playing
\* phase, provided update_npcs keeps being called with positive deltas, whatever calls
\* are interleaved and whoever is alive. A meeting that no tick moves on and that no
\* call of the player changes stays a meeting for ever under fair ticks, so the claim
\* requires that a running meeting is never in such a state.
C22_MeetingLiveness ==
    phase = "meeting" =>
        \/ \E delta_time \in Deltas : \E W \in update_npcs(world, delta_time) : moved_on(W)
        \/ \E a \in Callers : \E c \in typed_calls(a) : apply(world, a, c[1], c[2]) # world

\* the arguments a call of the action named name can carry
call_args(a, name) ==
    IF name = "enter" THEN SeqToSet(rooms) \cup {"Z"}
    ELSE IF name = "kill" THEN Agents \cup {NoAgent}
    ELSE IF name = "say" THEN SayArgs(a)
    ELSE {"None"}

\* the call is one of the invalid ones: the actor is dead, the action name is unknown,
\* or it is a kill whose target is missing or already dead
invalid_call(a, name, arg) ==
    \/ state[a] = "dead"
    \/ name \notin {"enter", "sabo", "report", "kill", "say", "idle", "task", "voting"}
    \/ name = "kill" /\ (arg \notin Agents \/ state[arg] = "dead")

\* C23: invalid actions are no-ops - in every reachable state, any action for a dead
\* actor, a kill whose target is missing or already dead, and an unknown action name
\* return no event and leave the whole simulation state unchanged.
C23_InvalidActionsAreNoOps ==
    \A a \in Agents :
      \A name \in {"enter", "sabo", "report", "kill", "say", "idle", "task", "voting", "dance"} :
        \A arg \in call_args(a, name) :
          invalid_call(a, name, arg) =>
            /\ apply_returns(world, a, name, arg) = "none"
            /\ apply(world, a, name, arg) = world

\* the player, alive, has just called kill on a target that is dead or missing, in a
\* world where an agent has been killed: the call returned nothing
C23_Witness ==
    /\ last_call.op = "apply"
    /\ last_call.action = "kill"
    /\ last_call.returns = "none"
    /\ state[last_call.agent] = "alive"
    /\ \E t \in Agents : state[t] = "dead"

\* the room r exists and is directly connected to the room agent a is in
legal_move(a, r) ==
    /\ r \in SeqToSet(rooms)
    /\ location[a] \in SeqToSet(rooms)
    /\ r \in connections[location[a]]

\* C24: movement legality - an enter action succeeds only if the target room exists
\* and is directly connected to the agent's current room; otherwise it returns no
\* event and the whole world (location, room occupancy, event log, beliefs) is
\* unchanged. Hence whenever an agent's location changes from one room to another,
\* outside the step that starts a meeting and the step that ends one, the two rooms
\* are connected. (A corpse taken off the map by a report has no room afterwards.)
C24_MovementLegality ==
    [][/\ (last_call'.op = "apply" /\ last_call'.action = "enter"
           /\ state[last_call'.agent] = "alive") =>
             LET a == last_call'.agent
             IN  /\ \A r \in SeqToSet(rooms) \cup {"Z"} :
                       /\ apply_returns(world, a, "enter", r) = "event" <=> legal_move(a, r)
                       /\ ~legal_move(a, r) => apply(world, a, "enter", r) = world
                 /\ last_call'.returns = "none" => world' = world
                 /\ last_call'.returns = "event" =>
                       /\ legal_move(a, location'[a])
                       /\ Len(event_history') = Len(event_history) + 1
       /\ \A a \in Agents :
            (/\ location'[a] # location[a]
             /\ location[a] # NoLoc
             /\ location'[a] # NoLoc
             /\ phase' = phase) =>
               /\ location'[a] \in connections[location[a]]
               /\ state[a] = "alive"]_vars

\* the player, alive in a world of three rooms, has just called enter for a room that
\* is missing or not connected to its own, and the call returned nothing
C24_Witness ==
    /\ last_call.op = "apply"
    /\ last_call.action = "enter"
    /\ last_call.returns = "none"
    /\ state[last_call.agent] = "alive"
    /\ Len(rooms) = 3
    /\ location[last_call.agent] = rooms[1]
    /\ event_history # << >>

\* C25: malformed statements are rejected at construction - where an agent calls say,
\* a predicate outside {role, location, did} raises a validation error before any
\* event is created, so the event log and every agent's memory, worlds and sus (with
\* the rest of the world) are unchanged, whoever the subject is; a say with a
\* predicate of the enumeration goes out as one new event.
C25_MalformedStatementRejected ==
    [][(last_call'.op = "apply" /\ last_call'.action = "say"
        /\ state[last_call'.agent] = "alive") =>
          LET a == last_call'.agent
          IN  /\ \A subject \in Agents :
                    /\ \A predicate \in {"mood", "Role", "None"} :
                          /\ apply_returns(world, a, "say", <<predicate, subject, "bad">>) = "error"
                          /\ apply(world, a, "say", <<predicate, subject, "bad">>) = world
                    /\ \A predicate \in {"role", "location", "did"} :
                          apply_returns(world, a, "say", <<predicate, subject, "bad">>) = "event"
              /\ last_call'.returns = "error" =>
                    /\ world' = world
                    /\ event_history' = event_history
                    /\ events_created' = events_created
                    /\ memory' = memory
                    /\ worlds' = worlds
                    /\ sus' = sus
              /\ last_call'.returns = "event" => events_created' = events_created + 1]_vars

\* the player's malformed say has just raised, in a world whose event log has an entry
C25_Witness ==
    /\ last_call.op = "apply"
    /\ last_call.action = "say"
    /\ last_call.returns = "error"
    /\ state[last_call.agent] = "alive"
    /\ event_history # << >>

\* C26: the alive-agents-at-location query returns, in every reachable state, exactly
\* the agents whose state is alive and whose location is that room; in particular the
\* agent killed or ejected by vote is no longer returned.
C26_AliveAgentsAtLocation ==
    \A r \in SeqToSet(rooms) :
        get_agents_at_location(world, r)
            = {a \in Agents : state[a] = "alive" /\ location[a] = r}

\* the step resolves a meeting by ejecting the agent the vote singled out
ejection_step ==
    /\ phase = "meeting"
    /\ phase' = "playing"
    /\ meeting_result \in Agents

\* the worlds of agent a once it has processed the vote_result it was handed in the
\* step (its newest memory item), before any secondary elimination
worlds_after_vote_result(a) ==
    LET event == memory'[a][Len(memory'[a])].event
        kept == worlds_with_good(a, event.voted_out_id)
    IN  IF ~event.game_ended /\ kept # << >> THEN kept ELSE worlds[a]

\* the agents that are dead after the step
dead_after == {d \in Agents : state'[d] = "dead"}

C28_VoteResultDelivery ==
    [][ejection_step =>
         \E event \in {memory'[meeting_result][Len(memory'[meeting_result])].event} :
            /\ event.action = "vote_result"
            /\ event.voted_out_id = meeting_result
            /\ event.votes = meeting_votes
            /\ event.votes # NoVotes
            /\ \A a \in Agents :
                  new_items(a) = IF state'[a] = "alive" \/ a = meeting_result
                                 THEN <<MemoryItem(event, "observation", NoAgent)>>
                                 ELSE << >>]_vars

\* a meeting has ejected an agent while another agent lay dead: the living agents and
\* the ejected one hold the vote_result as their newest memory, the other dead agent
\* holds none
C28_Witness ==
    /\ last_call.op = "update_npcs"
    /\ phase = "playing"
    /\ meeting_step = 2
    /\ \E v \in Agents : \E d \in Agents \ {v} :
          /\ state[v] = "dead"
          /\ state[d] = "dead"
          /\ \A i \in DOMAIN memory[d] : memory[d][i].event.action # "vote_result"
          /\ \A a \in Agents \ {d} :
                /\ a # v => state[a] = "alive"
                /\ memory[a] # << >>
                /\ memory[a][Len(memory[a])].event.action = "vote_result"
                /\ memory[a][Len(memory[a])].event.voted_out_id = v
                /\ memory[a][Len(memory[a])].certainty = "FACT"

\* C29: meeting entry - when a meeting starts, every living agent is located in the
\* designated meeting location for the duration of the meeting, its pre-meeting
\* location is remembered, and each living agent is enqueued exactly once for the
\* statements step, for every room list the world can be created with.
C29_MeetingEntry ==
    /\ [][(phase = "playing" /\ phase' = "meeting") =>
            \A a \in Agents :
               /\ state'[a] = "alive" =>
                     /\ location'[a] = meeting_room
                     /\ original_locations'[a] = location[a]
               /\ occurrences(a, meeting_queue') = IF state'[a] = "alive" THEN 1 ELSE 0]_vars
    /\ [](phase = "meeting" =>
            \A a \in Agents : state[a] = "alive" => location[a] = meeting_room)

\* C30: meeting restoration round trip - the location an agent has when a report starts
\* a meeting is remembered unchanged for as long as the meeting runs, and when the
\* meeting ends every agent that was alive at its start and is still alive is back at
\* that location, its behaviour is idle, the room occupancy lists agree with the
\* locations (the agent is listed in its room and in no other), and the meeting
\* bookkeeping (queue, reporter, votes, result, remembered locations) is cleared.
C30_MeetingRestoration ==
    [][/\ (phase = "playing" /\ phase' = "meeting" /\ last_call'.op = "apply") =>
             \A a \in Agents : state[a] = "alive" => original_locations'[a] = location[a]
       /\ (phase = "meeting" /\ phase' = "meeting") =>
             original_locations' = original_locations
       /\ (phase = "meeting" /\ phase' = "playing") =>
             /\ \A a \in Agents :
                   (original_locations[a] # NoLoc /\ state'[a] = "alive") =>
                      /\ location'[a] = original_locations[a]
                      /\ behavior'[a] = "idle"
                      /\ \A r \in SeqToSet(rooms) :
                            a \in room_agents'[r] <=> r = location'[a]
                      /\ \A r \in SeqToSet(rooms) : a \notin room_dead'[r]
             /\ meeting_queue' = << >>
             /\ meeting_reporter_id' = NoAgent
             /\ meeting_votes' = NoVotes
             /\ meeting_result' = NoAgent
             /\ \A a \in Agents : original_locations'[a] = NoLoc]_vars

\* a meeting held in the meeting room has just ended (the clock has not moved since it
\* began): the living agents are out of the meeting room again, in rooms that list them
C30_Witness ==
    /\ last_call.op = "update_npcs"
    /\ phase = "playing"
    /\ meeting_step = 2
    /\ current_time = last_meeting_time
    /\ meeting_room \in SeqToSet(rooms)
    /\ room_agents[meeting_room] = {}
    /\ \E a \in Agents : \E b \in Agents :
          /\ state[a] = "alive" /\ state[b] = "alive"
          /\ location[a] # location[b]
          /\ a \in room_agents[location[a]]
          /\ b \in room_agents[location[b]]

\* the step is a tick that took the head of the statements queue: the statement timer,
\* which every other tick leaves above zero, is back at zero
dequeued == last_call'.op = "update_npcs" /\ meeting_statement_timer' = 0

\* C31: statements step - within one meeting the agents enqueued at its start (each
\* once) leave the queue from its head, one per tick at most and only on a tick that
\* finds a full statement time slice elapsed since the meeting began or the previous
\* agent left; the statements step creates at most one event for the agent it takes
\* off, a public say by that agent; nothing but a tick changes the queue; and the
\* voting step is entered only by a tick that leaves the statements queue empty.
C31_StatementsStep ==
    [][/\ (phase = "playing" /\ phase' = "meeting") =>
             /\ meeting_queue' = SetToSeq({a \in Agents : state'[a] = "alive"})
             /\ meeting_statement_timer' = 0
       /\ (phase = "meeting" /\ meeting_step = 0) =>
             LET tick == last_call'.op = "update_npcs"
                 due == /\ meeting_queue # << >>
                        /\ \E delta_time \in Deltas :
                             meeting_statement_timer + delta_time >= meeting_next_statement_time
             IN  /\ phase' = "meeting"
                 /\ meeting_step' \in {0, 1}
                 /\ ~tick => /\ meeting_queue' = meeting_queue
                             /\ meeting_step' = 0
                             /\ meeting_statement_timer' = meeting_statement_timer
                 /\ tick => (dequeued <=> due)
                 /\ dequeued =>
                       /\ meeting_step' = 0 =>
                             meeting_queue' = Tail(meeting_queue) /\ meeting_queue' # << >>
                       /\ meeting_step' = 1 => Tail(meeting_queue) = << >>
                       /\ Len(event_history') <= Len(event_history) + 1
                       /\ \A e \in new_events :
                             /\ e.action = "say"
                             /\ e.visibility = "public"
                             /\ e.actor = Head(meeting_queue)
                 /\ (tick /\ ~dequeued) =>
                       /\ event_history' = event_history
                       /\ meeting_step' = 0 => meeting_queue' = meeting_queue
                 /\ meeting_step' = 1 =>
                       /\ tick
                       /\ meeting_queue = << >> \/ (dequeued /\ Len(meeting_queue) = 1)
                       /\ meeting_queue' = SetToSeq({a \in Agents : state'[a] = "alive"})]_vars

\* the statements step has just taken the last agent off its queue, an NPC that made
\* a statement, and handed over to the voting step
C31_Witness ==
    /\ phase = "meeting"
    /\ meeting_step = 1
    /\ meeting_timer = 0
    /\ meeting_statement_timer = 0
    /\ last_call.op = "update_npcs"
    /\ event_history # << >>
    /\ event_history[Len(event_history)].action = "say"
    /\ IsNPC(world, event_history[Len(event_history)].actor)

\* x alone holds the highest count of the tally votes
unique_holder(votes, x) ==
    /\ votes # NoVotes
    /\ votes[x] > 0
    /\ \A y \in DOMAIN votes : y # x => votes[y] < votes[x]

\* the agents the step ejects: those handed a vote_result that names them
ejected_by_step ==
    {x \in Agents : \E i \in DOMAIN new_items(x) :
        /\ new_items(x)[i].event.action = "vote_result"
        /\ new_items(x)[i].event.voted_out_id = x}

\* C32: voting step - every living agent casts at most one vote per meeting (an agent
\* id or an abstention), so the counts of the tally sum to at most the number of living
\* agents; the meeting ejects an agent iff it is the unique holder of the highest
\* count; and at most one agent is ejected per meeting.
C32_VotingStep ==
    [][/\ (phase = "meeting" /\ meeting_step = 1 /\ meeting_step' = 2) =>
             /\ DOMAIN meeting_votes' = Agents
             /\ Sum(meeting_votes', Agents)
                   <= Cardinality({a \in Agents : state[a] = "alive"})
             /\ \A x \in Agents : meeting_result' = x <=> unique_holder(meeting_votes', x)
       /\ (phase = "meeting" /\ phase' = "playing") =>
             /\ \A x \in Agents : x \in ejected_by_step <=> unique_holder(meeting_votes, x)
             /\ Cardinality(ejected_by_step) <= 1
             /\ {x \in Agents : state[x] = "alive" /\ state'[x] = "dead"}
                   \subseteq ejected_by_step
             /\ events_created' <= events_created + 1]_vars

\* C33: game time is frozen during meetings - while the phase is MEETING no tick
\* changes the game clock (current_time) or last_meeting_time, so the time that
\* elapses inside a meeting never counts toward the automatic-meeting interval, which
\* is measured from the clock value stored when the meeting started.
C33_GameTimeFrozenInMeeting ==
    [][/\ (phase = "meeting" /\ last_call'.op = "update_npcs") =>
             /\ current_time' = current_time
             /\ last_meeting_time' = last_meeting_time
             /\ current_time' - last_meeting_time' = 0
       /\ (phase = "playing" /\ phase' = "meeting") =>
             last_meeting_time' = current_time']_vars

\* a meeting that began after the clock had advanced has been running for at least two
\* ticks, and the clock still shows the time at which it began
C33_Witness ==
    /\ phase = "meeting"
    /\ last_call.op = "update_npcs"
    /\ meeting_timer >= 2
    /\ current_time > 0
    /\ current_time = last_meeting_time

\* C34: automatic meetings - in PLAYING, a tick after which the game clock is at least
\* one meeting interval past the start of the last meeting starts a meeting (when some
\* agent is alive) and performs no NPC action in that tick; a tick that starts a
\* meeting without a report does so no earlier than one full interval of PLAYING time
\* after the previous meeting's start; and a report, by the player's call or by an NPC
\* within a tick, starts a meeting at once whatever the clock shows.
C34_AutomaticMeetings ==
    [][/\ (/\ phase = "playing"
           /\ last_call'.op = "update_npcs"
           /\ current_time' - last_meeting_time >= meeting_interval
           /\ \E a \in Agents : state[a] = "alive") =>
             /\ phase' = "meeting"
             /\ meeting_step' = 0
             /\ last_meeting_time' = current_time'
             /\ state[meeting_reporter_id'] = "alive"
             /\ event_history' = event_history
             /\ events_created' = events_created
             /\ state' = state
             /\ behavior' = behavior
             /\ next_action_time' = next_action_time
             /\ last_action_time' = last_action_time
             /\ worlds' = worlds /\ memory' = memory /\ sus' = sus
             /\ result' = result
             /\ \A a \in Agents : location'[a] \in {location[a], meeting_room}
       /\ (/\ phase = "playing"
           /\ phase' = "meeting"
           /\ last_call'.op = "update_npcs"
           /\ \A e \in new_events : e.action # "report") =>
             /\ current_time' - last_meeting_time >= meeting_interval
             /\ event_history' = event_history
       /\ (phase = "playing" /\ \E e \in new_events : e.action = "report") =>
             /\ phase' = "meeting"
             /\ meeting_step' = 0
             /\ last_meeting_time' = current_time'
       /\ (/\ phase = "playing"
           /\ last_call'.op = "apply"
           /\ last_call'.action = "report"
           /\ last_call'.returns = "event") =>
             /\ phase' = "meeting"
             /\ current_time' = current_time
             /\ meeting_reporter_id' = last_call'.agent]_vars

\* a tick has just started an automatic meeting, a full interval after the meeting the
\* player's report had started when the clock already showed more than zero
C34_Witness ==
    /\ phase = "meeting"
    /\ last_call.op = "update_npcs"
    /\ meeting_step = 0
    /\ meeting_timer = 0
    /\ meeting_statement_timer = 0
    /\ calls_made = 1
    /\ Cardinality({i \in DOMAIN event_history : event_history[i].action = "report"}) = 1
    /\ last_meeting_time = current_time
    /\ current_time > meeting_interval

\* C35: truth preservation - in every reachable state the worlds of every living agent
\* contain the ground-truth role assignment: no sequence of kills, reports, statements,
\* votes and secondary passes removes the actual world from a living agent's belief
\* state, for any number of bad agents.
C35_TruthPreservation ==
    \A a \in Agents :
        state[a] = "alive" => \E i \in DOMAIN worlds[a] : worlds[a][i] = truth

\* C36: only living agents act - every event added to the event log has an actor that
\* was alive when the event was created, and the tally of a meeting is made of votes
\* cast by agents alive at the moment of tallying; an agent that dies during a meeting
\* (killed by a call made while the meeting is in progress) neither makes its queued
\* statement nor votes.
C36_OnlyLivingAgentsAct ==
    [][/\ \A e \in new_events : state[e.actor] = "alive"
       /\ (phase = "meeting" /\ meeting_step = 1 /\ meeting_step' = 2) =>
             \E ballots \in ballots_of(world,
                     SelectSeq(meeting_queue, LAMBDA a : state[a] = "alive")) :
                 meeting_votes' = tally(world, ballots)
       /\ (phase = "meeting" /\ meeting_step = 0 /\ dequeued
           /\ state[Head(meeting_queue)] = "dead") =>
             event_history' = event_history]_vars

\* C37: result stability - once the game result is set, no further tick and no further
\* action changes it to a different value or back to unset.
C37_ResultStability ==
    [][result # NoResult => result' = result]_vars

\* C38: a sabo performed through the action layer is only ever dispatched as private
\* or witnessed, so it reaches every recipient (the actor and the agents in its room)
\* as a FACT and never as hearsay; consequently no sabo action changes any agent's
\* worlds or any agent's sus.
C38_SaboNeverHearsay ==
    [][/\ \A e \in new_events : e.action = "sabo" =>
             /\ e.visibility \in {"private", "witnessed"}
             /\ e.visibility = "private" <=> e.witnesses = {}
             /\ \A a \in Agents :
                   new_items(a) = IF a = e.actor \/ a \in e.witnesses
                                  THEN <<MemoryItem(e, "observation", NoAgent)>>
                                  ELSE << >>
       /\ \A a \in Agents : \A i \in DOMAIN new_items(a) :
             new_items(a)[i].event.action = "sabo" =>
                /\ new_items(a)[i].source_type = "observation"
                /\ new_items(a)[i].certainty = "FACT"
       /\ (last_call'.op = "apply" /\ last_call'.action = "sabo") =>
             /\ worlds' = worlds
             /\ sus' = sus
             /\ last_call'.returns = "event" =>
                   /\ Len(event_history') = Len(event_history) + 1
                   /\ event_history'[Len(event_history')].action = "sabo"
                   /\ event_history'[Len(event_history')].actor = last_call'.agent]_vars

\* the player's sabo has just been witnessed by an NPC that tracks suspicion: the NPC
\* holds the event as a FACT
C38_Witness ==
    /\ last_call.op = "apply"
    /\ last_call.action = "sabo"
    /\ last_call.returns = "event"
    /\ event_history # << >>
    /\ event_history[Len(event_history)].action = "sabo"
    /\ event_history[Len(event_history)].visibility = "witnessed"
    /\ \E a \in event_history[Len(event_history)].witnesses :
          /\ IsNPC(world, a)
          /\ memory[a] # << >>
          /\ memory[a][Len(memory[a])].event = event_history[Len(event_history)]
          /\ memory[a][Len(memory[a])].certainty = "FACT"

\* the step is a tick taken while the phase is MEETING
meeting_tick == phase = "meeting" /\ last_call'.op = "update_npcs"

C40_BadNPCVote ==
    (phase = "meeting" /\ meeting_step = 1) =>
        \A a \in SeqToSet(meeting_queue) :
            IsNPC(world, a) =>
                \A ballot \in vote(world, a) :
                    ballot # NoAgent =>
                        /\ state[ballot] = "alive"
                        /\ role[a] = "bad" => ballot # a

====
